---- MODULE Spec2Model ----
(***************************************************************************)
(* A model of lilio's calendar engine (lilio/calendar.py) and resampling   *)
(* engine (lilio/resampling.py, lilio/utils.py).                           *)
(*                                                                         *)
(* Timestamps are whole days, counted from 1970-01-01 (day 0): every date  *)
(* the calendar produces is a midnight, because anchors are dates and      *)
(* offsets are whole days, weeks or months.  A frequency string such as    *)
(* "10d", "-5d", "2W" or "3M" is the record [n |-> 10, unit |-> "d"] of    *)
(* its signed count and its unit letter.                                   *)
(***************************************************************************)
EXTENDS Integers, Sequences, FiniteSets, TLC

VARIABLES
    _anchor,           \* Calendar._anchor: the canonical anchor string, as characters
    _anchor_fmt,       \* Calendar._anchor_fmt: its strptime format
    _allow_overlap,    \* Calendar._allow_overlap
    targets,           \* Calendar.targets: Interval objects, in insertion order
    precursors,        \* Calendar.precursors: Interval objects, in insertion order
    _mapping,          \* Calendar._mapping: "None", "years" or "data"
    _first_year,       \* Calendar._first_year (Null when not set)
    _last_year,        \* Calendar._last_year (Null when not set)
    _first_timestamp,  \* Calendar._first_timestamp (Null when not set)
    _last_timestamp,   \* Calendar._last_timestamp (Null when not set)
    call,              \* the last call made and its arguments
    error,             \* the exception the last call raised, "none" when it returned
    returned,          \* the value the last call returned (Null when it raised)
    warned             \* the warnings the last call emitted

calendar_vars == <<_anchor, _anchor_fmt, _allow_overlap, targets, precursors,
                   _mapping, _first_year, _last_year, _first_timestamp,
                   _last_timestamp>>
vars == <<_anchor, _anchor_fmt, _allow_overlap, targets, precursors, _mapping,
          _first_year, _last_year, _first_timestamp, _last_timestamp,
          call, error, returned, warned>>

Null == "null"

(***************************************************************************)
(* Bounds of the model.                                                    *)
(***************************************************************************)
\* the most intervals (targets plus precursors) a calendar holds
MaxIntervals == 3
\* the years that map_years is called with: 2019 .. 2019 + YearSpan
YearSpan == 2

(***************************************************************************)
(* The proleptic Gregorian calendar of pandas.Timestamp.                   *)
(***************************************************************************)
is_leap_year(y) == (y % 4 = 0) /\ ((y % 100 # 0) \/ (y % 400 = 0))

days_in_month(y, m) ==
    IF m \in {1, 3, 5, 7, 8, 10, 12} THEN 31
    ELSE IF m \in {4, 6, 9, 11} THEN 30
    ELSE IF is_leap_year(y) THEN 29 ELSE 28

\* pd.Timestamp(year, month, day) as a day number
Timestamp(y, m, d) ==
    LET yy  == IF m <= 2 THEN y - 1 ELSE y
        mp  == IF m > 2 THEN m - 3 ELSE m + 9
    IN  (yy \div 400) * 146097 + (yy % 400) * 365 + (yy % 400) \div 4
            - (yy % 400) \div 100 + (153 * mp + 2) \div 5 + d - 1 - 719468

\* the fields of the day doy (from 1 March) of a year that starts in March
\* of calendar year y, its month counted from March (mp)
fields_of_month(y, doy, mp) ==
    [year |-> IF mp < 10 THEN y ELSE y + 1,
     month |-> IF mp < 10 THEN mp + 3 ELSE mp - 9,
     day |-> doy - (153 * mp + 2) \div 5 + 1]

fields_of_day(y, doy) == fields_of_month(y, doy, (5 * doy + 2) \div 153)

\* the fields of day doe of a 400-year era, which falls in its year yoe
fields_of_year(era, doe, yoe) ==
    fields_of_day(yoe + era * 400,
                  doe - (365 * yoe + yoe \div 4 - yoe \div 100))

fields_of_era(era, doe) ==
    fields_of_year(era, doe,
                   (doe - doe \div 1460 + doe \div 36524 - doe \div 146096)
                       \div 365)

\* the fields .year, .month, .day of a timestamp
Fields(ts) ==
    fields_of_era((ts + 719468) \div 146097, (ts + 719468) % 146097)

\* the day of the month, capped at the last day of month m of year y
capped_day(y, m, day, last_day) ==
    Timestamp(y, m, IF day > last_day THEN last_day ELSE day)

\* the day with fields f, moved to month m of year y
in_month(f, y, m) == capped_day(y, m, f.day, days_in_month(y, m))

\* the day with fields f, k months on
months_on(f, k) ==
    in_month(f, (f.year * 12 + (f.month - 1) + k) \div 12,
             ((f.year * 12 + (f.month - 1) + k) % 12) + 1)

\* relativedelta(months=k): the same day of the month k months on, capped at
\* the last day of that month
add_months(ts, k) == IF k = 0 THEN ts ELSE months_on(Fields(ts), k)

(***************************************************************************)
(* Interval: role, length and gap; the DateOffset of a length or gap.      *)
(***************************************************************************)
\* utils.parse_freqstr_to_dateoffset: the DateOffset keyword of a frequency string
parse_freqstr_to_dateoffset(time_str) ==
    IF time_str.unit = "d" THEN [days |-> time_str.n, weeks |-> 0, months |-> 0]
    ELSE IF time_str.unit = "M" THEN [days |-> 0, weeks |-> 0, months |-> time_str.n]
    ELSE [days |-> 0, weeks |-> time_str.n, months |-> 0]

Interval(role, length, gap) == [role |-> role, length |-> length, gap |-> gap]

\* isinstance(value, str): a frequency string, not a dictionary of units
isinstance_str(value) == "unit" \in DOMAIN value

\* dict.get(key, 0)
get(dict, key) == IF key \in DOMAIN dict THEN dict[key] ELSE 0

\* DateOffset(**value): a unit that is not a key of value is 0
DateOffset(value) ==
    [days |-> get(value, "days"), weeks |-> get(value, "weeks"),
     months |-> get(value, "months")]

\* Interval.length setter: the DateOffset of a string or of a dictionary
length_dateoffset(iv) ==
    IF isinstance_str(iv.length)
    THEN DateOffset(parse_freqstr_to_dateoffset(iv.length))
    ELSE DateOffset(iv.length)
\* Interval.gap setter: the DateOffset of a string or of a dictionary
gap_dateoffset(iv) ==
    IF isinstance_str(iv.gap)
    THEN DateOffset(parse_freqstr_to_dateoffset(iv.gap))
    ELSE DateOffset(iv.gap)

\* timestamp + DateOffset: the months first, then the weeks and days
plus_offset(ts, off) == add_months(ts, off.months) + 7 * off.weeks + off.days
\* timestamp - DateOffset
minus_offset(ts, off) == add_months(ts, 0 - off.months) - 7 * off.weeks - off.days

\* pd.Interval(left, right, closed="left")
PdInterval(left, right) == [left |-> left, right |-> right, closed |-> "left"]

(***************************************************************************)
(* Calendar: the anchor.                                                   *)
(***************************************************************************)
DigitValue(c) ==
    CASE c = "0" -> 0 [] c = "1" -> 1 [] c = "2" -> 2 [] c = "3" -> 3
      [] c = "4" -> 4 [] c = "5" -> 5 [] c = "6" -> 6 [] c = "7" -> 7
      [] c = "8" -> 8 [] c = "9" -> 9

\* int(s) of a string of digits
RECURSIVE ParseInt(_)
ParseInt(s) ==
    IF Len(s) = 0 THEN 0
    ELSE 10 * ParseInt(SubSeq(s, 1, Len(s) - 1)) + DigitValue(s[Len(s)])

\* the position of the first "-" of a string, 0 when it has none
Find(s, ch) ==
    IF \E i \in 1..Len(s) : s[i] = ch
    THEN CHOOSE i \in 1..Len(s) : s[i] = ch /\ \A j \in 1..(i - 1) : s[j] # ch
    ELSE 0

\* the calendar object, as the methods see it
Self == [_anchor |-> _anchor, _anchor_fmt |-> _anchor_fmt,
         _allow_overlap |-> _allow_overlap,
         targets |-> targets, precursors |-> precursors,
         _mapping |-> _mapping,
         _first_year |-> _first_year, _last_year |-> _last_year,
         _first_timestamp |-> _first_timestamp,
         _last_timestamp |-> _last_timestamp]

n_targets(self) == Len(self.targets)

\* the day that the directives %W and %w give in a year: week 1 starts on the
\* first Monday of the year, and weekday 0 is the Sunday that ends a week
week_day_timestamp(year, week_of_year, w) ==
    Timestamp(year, 1, 1)
        + ((7 - ((Timestamp(year, 1, 1) + 3) % 7)) % 7)
        + 7 * (week_of_year - 1)
        + (IF w = 0 THEN 6 ELSE w - 1)

\* the error of pd.to_datetime(f"{year}-" + anchor, format="%Y-" + fmt) on an
\* anchor that _parse_anchor returned: %w matches one digit from 0 to 6
to_datetime_error(anchor, fmt) ==
    IF fmt = "W%W-%w" /\ DigitValue(anchor[Len(anchor)]) > 6
    THEN "ValueError"
    ELSE "none"

\* Calendar._get_anchor: pd.to_datetime(f"{year}-" + anchor, format="%Y-" + fmt)
_get_anchor(self, year) ==
    IF self._anchor_fmt = "%m-%d"
    THEN Timestamp(year,
                   ParseInt(SubSeq(self._anchor, 1, Find(self._anchor, "-") - 1)),
                   ParseInt(SubSeq(self._anchor, Find(self._anchor, "-") + 1,
                                   Len(self._anchor))))
    ELSE IF self._anchor_fmt = "W%W-%w"
    THEN week_day_timestamp(
             year,
             ParseInt(SubSeq(self._anchor, 2, Len(self._anchor) - 2)),
             DigitValue(self._anchor[Len(self._anchor)]))
    ELSE Timestamp(year, ParseInt(self._anchor), 1)

(***************************************************************************)
(* Calendar: the intervals of one anchor year.                             *)
(***************************************************************************)
\* the loop of _concatenate_periods that builds from left to right
RECURSIVE build_left_to_right(_, _)

\* intervals.append(interval); left_date = right_date; the later blocks
append_left_to_right(interval, list_periods) ==
    <<interval>> \o build_left_to_right(interval.right, list_periods)

\* right_date = left_date + block.length_dateoffset
interval_from_left(left_date, block) ==
    PdInterval(left_date, plus_offset(left_date, length_dateoffset(block)))

build_left_to_right(left_date, list_periods) ==
    IF list_periods = <<>> THEN <<>>
    ELSE append_left_to_right(
             interval_from_left(
                 plus_offset(left_date, gap_dateoffset(Head(list_periods))),
                 Head(list_periods)),
             Tail(list_periods))

\* the loop of _concatenate_periods that builds from right to left
RECURSIVE build_right_to_left(_, _)

\* intervals.append(interval); right_date = left_date; the later blocks
append_right_to_left(interval, list_periods) ==
    <<interval>> \o build_right_to_left(interval.left, list_periods)

\* left_date = right_date - block.length_dateoffset
interval_from_right(right_date, block) ==
    PdInterval(minus_offset(right_date, length_dateoffset(block)), right_date)

build_right_to_left(right_date, list_periods) ==
    IF list_periods = <<>> THEN <<>>
    ELSE append_right_to_left(
             interval_from_right(
                 minus_offset(right_date, gap_dateoffset(Head(list_periods))),
                 Head(list_periods)),
             Tail(list_periods))

\* _concatenate_periods with the gaps of the blocks left out
_concatenate_periods_gapless(self, year, list_periods, is_target) ==
    LET blocks == [k \in 1..Len(list_periods) |->
                      [list_periods[k] EXCEPT !.gap = [n |-> 0, unit |-> "d"]]]
    IN  IF is_target
        THEN build_left_to_right(_get_anchor(self, year), blocks)
        ELSE build_right_to_left(_get_anchor(self, year), blocks)

\* Calendar._concatenate_periods
_concatenate_periods(self, year, list_periods, is_target) ==
    IF is_target
    THEN build_left_to_right(_get_anchor(self, year), list_periods)
    ELSE build_right_to_left(_get_anchor(self, year), list_periods)

\* seq[::-1]
Reversed(seq) == [i \in 1..Len(seq) |-> seq[Len(seq) + 1 - i]]

\* Calendar._map_year: the pd.Series of one year's intervals; position i of the
\* sequence is index label i - 1 of the Series
_map_year(self, year) ==
    LET intervals_target == _concatenate_periods(self, year, self.targets, TRUE)
        intervals_precursor ==
            _concatenate_periods(self, year, self.precursors, FALSE)
        year_intervals == Reversed(intervals_precursor) \o intervals_target
    IN  Reversed(year_intervals)

(***************************************************************************)
(* Calendar._get_skip_nyears                                               *)
(***************************************************************************)
proto_year == 2000

\* start_calendar after the loop over the precursors; the timestamp is
\* evaluated at every step of the loop, which keeps long loops flat
RECURSIVE walk_back(_, _)
walk_back(start_calendar, precs) ==
    IF precs = <<>> \/ start_calendar \notin Int THEN start_calendar
    ELSE walk_back(minus_offset(minus_offset(start_calendar,
                                             gap_dateoffset(Head(precs))),
                                length_dateoffset(Head(precs))),
                   Tail(precs))

\* prev_end_calendar after the loop over the targets
RECURSIVE walk_forward(_, _)
walk_forward(prev_end_calendar, tgts) ==
    IF tgts = <<>> THEN prev_end_calendar
    ELSE walk_forward(plus_offset(plus_offset(prev_end_calendar,
                                              gap_dateoffset(Head(tgts))),
                                  length_dateoffset(Head(tgts))),
                      Tail(tgts))

\* the while loop with a year skipped also when the earlier year's targets end
\* where the precursors start
RECURSIVE skip_loop_inclusive(_, _, _)
skip_loop_inclusive(self, start_calendar, skip_years) ==
    IF walk_forward(_get_anchor(self, proto_year - 1 - skip_years), self.targets)
           >= start_calendar
    THEN skip_loop_inclusive(self, start_calendar, skip_years + 1)
    ELSE skip_years

\* the while loop of _get_skip_nyears, entered with skip_years
RECURSIVE skip_loop(_, _, _)
skip_loop(self, start_calendar, skip_years) ==
    LET prev_end_calendar ==
            walk_forward(_get_anchor(self, proto_year - 1 - skip_years),
                         self.targets)
    IN  IF prev_end_calendar > start_calendar
        THEN skip_loop(self, start_calendar, skip_years + 1)
        ELSE skip_years

_get_skip_nyears(self) ==
    IF self._allow_overlap THEN 0
    ELSE skip_loop(self,
                   walk_back(_get_anchor(self, proto_year), self.precursors),
                   0)

(***************************************************************************)
(* numpy floats.  A float is the fraction num/den in lowest terms with     *)
(* den > 0, the square root of such a fraction (root), or NaN (den = 0).   *)
(* The values of the input data are whole numbers or NaN.                  *)
(***************************************************************************)
NaN == [num |-> 0, den |-> 0, root |-> FALSE]
Float(n) == [num |-> n, den |-> 1, root |-> FALSE]
isnan(x) == x.den = 0

RECURSIVE gcd(_, _)
gcd(a, b) == IF b = 0 THEN a ELSE gcd(b, a % b)

\* n / d for d > 0
true_divide(n, d) ==
    LET g == gcd(IF n < 0 THEN 0 - n ELSE n, d)
    IN  [num |-> n \div g, den |-> d \div g, root |-> FALSE]

\* np.sqrt of a fraction >= 0
sqrt(x) ==
    IF /\ \E r \in 0..x.num : r * r = x.num
       /\ \E q \in 1..x.den : q * q = x.den
    THEN [num |-> CHOOSE r \in 0..x.num : r * r = x.num,
          den |-> CHOOSE q \in 1..x.den : q * q = x.den,
          root |-> FALSE]
    ELSE [x EXCEPT !.root = TRUE]

has_nan(xs) == \E i \in 1..Len(xs) : isnan(xs[i])
drop_nan(xs) == SelectSeq(xs, LAMBDA x : ~isnan(x))

\* the sum of whole numbers
RECURSIVE add_reduce(_)
add_reduce(xs) == IF xs = <<>> THEN 0 ELSE Head(xs).num + add_reduce(Tail(xs))

\* the sum of their squares
RECURSIVE sum_of_squares(_)
sum_of_squares(xs) ==
    IF xs = <<>> THEN 0
    ELSE Head(xs).num * Head(xs).num + sum_of_squares(Tail(xs))

minimum(xs) ==
    CHOOSE m \in {xs[i].num : i \in 1..Len(xs)} :
        \A i \in 1..Len(xs) : m <= xs[i].num
maximum(xs) ==
    CHOOSE m \in {xs[i].num : i \in 1..Len(xs)} :
        \A i \in 1..Len(xs) : m >= xs[i].num

\* the reductions of a non-empty array of whole numbers
np_mean(xs) == true_divide(add_reduce(xs), Len(xs))
np_var(xs) ==
    true_divide(Len(xs) * sum_of_squares(xs) - add_reduce(xs) * add_reduce(xs),
                Len(xs) * Len(xs))

(***************************************************************************)
(* Input data: a pandas or xarray object.  Its time axis is that of        *)
(* pd.date_range(start, periods=periods, freq=f"{freq}d") with the         *)
(* positions in dropped (0-based) removed; datetime says whether the axis  *)
(* holds datetime values (a DatetimeIndex, or a datetime `time` dimension).*)
(* name is the name of a Series or DataArray ("None" when it has none),    *)
(* columns are the columns of a DataFrame or the variables of a Dataset,   *)
(* which have `time` as their only dimension.  fill says which values the  *)
(* data hold along the time axis, before positions are dropped:            *)
(* np.arange(periods) ("arange"), the same with NaN first ("nan"), or      *)
(* np.full(periods, value) ("full").                                       *)
(***************************************************************************)
\* the k-th position (0-based) of the date_range that the data keep
kept_position(data, k) ==
    IF data.dropped = {} THEN k - 1
    ELSE CHOOSE p \in (0..(data.periods - 1)) \ data.dropped :
             p - Cardinality({d \in data.dropped : d < p}) = k - 1

\* data.index.values / data.time.values
time_values(data) ==
    [k \in 1..(data.periods - Cardinality(data.dropped)) |->
        data.start + kept_position(data, k) * data.freq]
n_samples(data) == data.periods - Cardinality(data.dropped)

\* data.index.min() and data.index.max(): the axis is ascending (freq > 0)
index_min(data) == data.start + kept_position(data, 1) * data.freq
index_max(data) == data.start + kept_position(data, n_samples(data)) * data.freq

\* data[colname].values
values_of(data) ==
    [k \in 1..n_samples(data) |->
        IF data.fill.kind = "full" THEN Float(data.fill.value)
        ELSE IF data.fill.kind = "nan" /\ kept_position(data, k) = 0 THEN NaN
        ELSE Float(kept_position(data, k))]

is_pandas(data) == data.type \in {"Series", "DataFrame"}
is_xarray(data) == data.type \in {"DataArray", "Dataset"}

\* utils.check_timeseries: the error it raises, "none" when it returns
check_timeseries(data) ==
    IF ~(is_pandas(data) \/ is_xarray(data)) THEN "ValueError"
    ELSE IF ~data.datetime THEN "ValueError"
    ELSE "none"

(***************************************************************************)
(* Calendar._set_year_range_from_timestamps                                *)
(***************************************************************************)
\* series.iloc[0] and series.iloc[-1]
iloc_first(series) == series[1]
iloc_last(series) == series[Len(series)]

\* the while loop of the first date check, entered with min_year
RECURSIVE first_date_check(_, _)
first_date_check(self, min_year) ==
    IF iloc_last(_map_year(self, min_year)).right <= self._first_timestamp
    THEN first_date_check(self, min_year + 1)
    ELSE min_year

\* the last date check, entered with max_year
last_date_check(self, max_year) ==
    IF iloc_first(_map_year(self, max_year)).right > self._last_timestamp
    THEN max_year - 1
    ELSE max_year

\* the end of _set_year_range_from_timestamps, with both years found
year_range_check(self, min_year, max_year) ==
    IF max_year >= min_year
    THEN [error |-> "none", _first_year |-> min_year, _last_year |-> max_year]
    ELSE [error |-> "ValueError",
          _first_year |-> self._first_year, _last_year |-> self._last_year]

\* the outcome of _set_year_range_from_timestamps: the error raised ("none"
\* when it returns) and the year range it leaves in the calendar
_set_year_range_from_timestamps(self) ==
    IF Len(self.targets) + Len(self.precursors) = 0
    THEN \* .iloc[0] of an empty Series
         [error |-> "IndexError",
          _first_year |-> self._first_year, _last_year |-> self._last_year]
    ELSE year_range_check(
             self,
             first_date_check(self, Fields(self._first_timestamp).year),
             last_date_check(self, Fields(self._last_timestamp).year))

(***************************************************************************)
(* Calendar.get_intervals: the table is the record of its row labels       *)
(* (index), its column labels (columns) and its rows of cells (values).    *)
(***************************************************************************)
\* range(start, stop, step) with step < 0
RECURSIVE range_down(_, _, _)
range_down(start, stop, step) ==
    IF start <= stop THEN <<>>
    ELSE <<start>> \o range_down(start + step, stop, step)

\* keys[i] inserted in the sorted sequence of positions perm (stable)
RECURSIVE insert_sorted(_, _, _, _)
insert_sorted(keys, perm, i, ascending) ==
    IF perm = <<>> THEN <<i>>
    ELSE LET last == perm[Len(perm)]
             after == IF ascending THEN keys[last] <= keys[i]
                      ELSE keys[last] >= keys[i]
         IN  IF after THEN Append(perm, i)
             ELSE Append(insert_sorted(keys, SubSeq(perm, 1, Len(perm) - 1),
                                       i, ascending), last)

\* the positions of keys in sorted order
RECURSIVE sort_positions(_, _, _)
sort_positions(keys, n, ascending) ==
    IF n = 0 THEN <<>>
    ELSE insert_sorted(keys, sort_positions(keys, n - 1, ascending), n, ascending)

\* DataFrame.sort_index(axis=1)
sort_columns(df) ==
    LET perm == sort_positions(df.columns, Len(df.columns), TRUE)
    IN  [index |-> df.index,
         columns |-> [k \in 1..Len(perm) |-> df.columns[perm[k]]],
         values |-> [r \in 1..Len(df.values) |->
                        [k \in 1..Len(perm) |-> df.values[r][perm[k]]]]]

\* DataFrame.sort_index(axis=0, ascending=False)
sort_rows_descending(df) ==
    LET perm == sort_positions(df.index, Len(df.index), FALSE)
    IN  [index |-> [k \in 1..Len(perm) |-> df.index[perm[k]]],
         columns |-> df.columns,
         values |-> [k \in 1..Len(perm) |-> df.values[perm[k]]]]

\* _rename_intervals that numbers the precursors from -2 on
_rename_intervals_shifted(self, intervals) ==
    LET nt == n_targets(self)
        ncol == Len(intervals.columns)
    IN  sort_columns([index |-> intervals.index,
                      columns |-> [k \in 1..ncol |->
                                      IF intervals.columns[k] >= nt
                                      THEN nt - intervals.columns[k] - 2
                                      ELSE nt - intervals.columns[k]],
                      values |-> intervals.values])

\* Calendar._rename_intervals
_rename_intervals(self, intervals) ==
    LET nt == n_targets(self)
        ncol == Len(intervals.columns)
        precursors_renamed ==
            [k \in 1..ncol |->
                IF intervals.columns[k] \in nt..(ncol - 1)
                THEN nt - intervals.columns[k] - 1 ELSE intervals.columns[k]]
        targets_renamed ==
            [k \in 1..ncol |->
                IF precursors_renamed[k] \in 0..(nt - 1)
                THEN nt - precursors_renamed[k] ELSE precursors_renamed[k]]
    IN  sort_columns([index |-> intervals.index,
                      columns |-> targets_renamed,
                      values |-> intervals.values])

\* pd.DataFrame([self._map_year(year) for year in year_range])
frame_of_years(self, year_range) ==
    [index |-> year_range,
     columns |-> [k \in 1..(Len(self.targets) + Len(self.precursors)) |-> k - 1],
     values |-> [r \in 1..Len(year_range) |-> _map_year(self, year_range[r])]]

\* the table get_intervals builds once the year range is set
intervals_table(self) ==
    sort_rows_descending(
        _rename_intervals(
            self,
            frame_of_years(self,
                           range_down(self._last_year, self._first_year - 1,
                                      0 - (_get_skip_nyears(self) + 1)))))

\* get_intervals after the year range is set, with outcome set
table_of_year_range(self, set) ==
    IF set.error # "none"
    THEN [error |-> set.error, returned |-> Null,
          _first_year |-> set._first_year, _last_year |-> set._last_year]
    ELSE [error |-> "none",
          returned |-> intervals_table(
              [self EXCEPT !._first_year = set._first_year,
                           !._last_year = set._last_year]),
          _first_year |-> set._first_year, _last_year |-> set._last_year]

\* get_intervals keeping the year range that an earlier call found in the data
get_intervals_cached(self) ==
    IF self._mapping = "None"
    THEN [error |-> "ValueError", returned |-> Null,
          _first_year |-> self._first_year, _last_year |-> self._last_year]
    ELSE table_of_year_range(
             self,
             IF self._mapping = "data"
                    /\ ToString(self._first_year) = ToString(Null)
             THEN _set_year_range_from_timestamps(self)
             ELSE [error |-> "none", _first_year |-> self._first_year,
                   _last_year |-> self._last_year])

\* the outcome of Calendar.get_intervals on calendar self: the error raised,
\* the table returned, and the year range it leaves in the calendar
get_intervals_of(self) ==
    IF self._mapping = "None"
    THEN [error |-> "ValueError", returned |-> Null,
          _first_year |-> self._first_year, _last_year |-> self._last_year]
    ELSE table_of_year_range(
             self,
             IF self._mapping = "data"
             THEN _set_year_range_from_timestamps(self)
             ELSE [error |-> "none", _first_year |-> self._first_year,
                   _last_year |-> self._last_year])

(***************************************************************************)
(* resampling: the reductions.                                             *)
(***************************************************************************)
np_median(xs) ==
    LET n == Len(xs)
        keys == [i \in 1..n |-> xs[i].num]
        perm == sort_positions(keys, n, TRUE)
    IN  IF n % 2 = 1 THEN Float(keys[perm[(n + 1) \div 2]])
        ELSE true_divide(keys[perm[n \div 2]] + keys[perm[n \div 2 + 1]], 2)

\* resampling.VALID_METHODS
VALID_METHODS ==
    <<"mean", "min", "max", "median", "std", "var", "ptp", "nanmean",
      "nanmedian", "nanstd", "nanvar", "sum", "nansum", "size", "count_nonzero">>

\* resampling._check_valid_resampling_methods: the error it raises
_check_valid_resampling_methods(method) ==
    IF \E i \in 1..Len(VALID_METHODS) : VALID_METHODS[i] = method
    THEN "none"
    ELSE "ValueError: not a valid resampling method"

\* the numpy functions that leave NaN values out, and what they compute of
\* the values that remain
nan_ignoring(how) ==
    how \in {"nanmean", "nanmedian", "nanstd", "nanvar", "nansum"}
plain_reduction(how) ==
    IF how = "nanmean" THEN "mean"
    ELSE IF how = "nanmedian" THEN "median"
    ELSE IF how = "nanstd" THEN "std"
    ELSE IF how = "nanvar" THEN "var"
    ELSE IF how = "nansum" THEN "sum"
    ELSE how

\* getattr(np, how)(xs): the value, the error raised ("none" when it returns)
\* and whether numpy emits a RuntimeWarning.  Of an empty array the mean,
\* median, std and var are NaN with a RuntimeWarning, min, max and ptp raise
\* a ValueError, and sum, size and count_nonzero are 0.
resampling_method(how, xs) ==
    LET ys == IF nan_ignoring(how) THEN drop_nan(xs) ELSE xs
        f  == plain_reduction(how)
        returns(value) == [value |-> value, error |-> "none", warning |-> FALSE]
    IN  IF f = "size" THEN returns(Float(Len(ys)))
        ELSE IF f = "count_nonzero"
        THEN returns(Float(Cardinality({i \in 1..Len(ys) :
                                           isnan(ys[i]) \/ ys[i].num # 0})))
        ELSE IF ys = <<>>
        THEN IF f = "sum" THEN returns(Float(0))
             ELSE IF f \in {"min", "max", "ptp"}
             THEN [value |-> NaN, warning |-> FALSE,
                   error |-> "ValueError: zero-size array to reduction operation"]
             ELSE [value |-> NaN, error |-> "none", warning |-> TRUE]
        ELSE IF has_nan(ys) THEN returns(NaN)
        ELSE IF f = "sum" THEN returns(Float(add_reduce(ys)))
        ELSE IF f = "mean" THEN returns(np_mean(ys))
        ELSE IF f = "min" THEN returns(Float(minimum(ys)))
        ELSE IF f = "max" THEN returns(Float(maximum(ys)))
        ELSE IF f = "ptp" THEN returns(Float(maximum(ys) - minimum(ys)))
        ELSE IF f = "median" THEN returns(np_median(ys))
        ELSE IF f = "var" THEN returns(np_var(ys))
        ELSE returns(sqrt(np_var(ys)))

(***************************************************************************)
(* utils: the checks of the input data.  A Timedelta is a number of days.  *)
(* The string pd.infer_freq returns is a sequence of characters.           *)
(***************************************************************************)
MONTH_LENGTH == 30

DigitChar(d) ==
    CASE d = 0 -> "0" [] d = 1 -> "1" [] d = 2 -> "2" [] d = 3 -> "3"
      [] d = 4 -> "4" [] d = 5 -> "5" [] d = 6 -> "6" [] d = 7 -> "7"
      [] d = 8 -> "8" [] d = 9 -> "9"

\* str(n) of a whole number n >= 0
RECURSIVE str(_)
str(n) ==
    IF n < 10 THEN <<DigitChar(n)>> ELSE str(n \div 10) \o <<DigitChar(n % 10)>>

\* data.index.values[1:] - data.index.values[:-1]
time_steps(data) ==
    LET t == time_values(data)
    IN  [k \in 1..(Len(t) - 1) |-> t[k + 1] - t[k]]

\* pd.infer_freq / xr.infer_freq of a time axis whose steps are whole days and,
\* when all equal, no multiple of 7: "D" or "<n>D" when they are all equal,
\* None (the empty sequence) when they are not; fewer than 3 timestamps are
\* refused
infer_freq(data) ==
    LET steps == time_steps(data)
    IN  IF n_samples(data) < 3
        THEN [error |-> "ValueError: Need at least 3 dates to infer frequency",
              freq |-> <<>>]
        ELSE IF \A k \in 1..Len(steps) : steps[k] = steps[1]
        THEN [error |-> "none",
              freq |-> IF steps[1] = 1 THEN <<"D">> ELSE str(steps[1]) \o <<"D">>]
        ELSE [error |-> "none", freq |-> <<>>]

\* re.match(r"\d+\D", s)
starts_with_count(s) ==
    /\ Len(s) >= 2
    /\ s[1] \in {"0", "1", "2", "3", "4", "5", "6", "7", "8", "9"}
    /\ \E i \in 2..Len(s) :
           s[i] \notin {"0", "1", "2", "3", "4", "5", "6", "7", "8", "9"}

\* pd.Timedelta of "<n>D", "<n>d" or "<n>W", in days
Timedelta(s) ==
    LET n == ParseInt(SubSeq(s, 1, Len(s) - 1))
    IN  IF s[Len(s)] = "W" THEN 7 * n ELSE n

\* utils.replace_month_length, on the count of a "<n>M" string
replace_month_length(n) == n * MONTH_LENGTH

\* data_freq with the count 1 put before a string that has none
counted(data_freq) ==
    IF starts_with_count(data_freq) THEN data_freq ELSE <<"1">> \o data_freq

\* the Timedelta of the frequency inferred, or of the smallest of the steps
\* when none is inferred
timedelta_of(inferred, steps) ==
    IF inferred.error # "none" THEN [error |-> inferred.error, freq |-> 0]
    ELSE IF inferred.freq = <<>>
    THEN \* manually: the smallest step
         [error |-> "none",
          freq |-> CHOOSE d \in {steps[k] : k \in 1..Len(steps)} :
                       \A k \in 1..Len(steps) : d <= steps[k]]
    ELSE [error |-> "none",
          freq |-> IF counted(inferred.freq)[Len(counted(inferred.freq))] = "M"
                   THEN replace_month_length(
                            ParseInt(SubSeq(counted(inferred.freq), 1,
                                            Len(counted(inferred.freq)) - 1)))
                   ELSE Timedelta(counted(inferred.freq))]

\* utils.infer_input_data_freq: the error raised and the Timedelta returned
infer_input_data_freq(data) == timedelta_of(infer_freq(data), time_steps(data))

\* the Timedelta of the length of an interval, its sign removed
length_timedelta(iv) ==
    LET n == IF iv.length.n < 0 THEN 0 - iv.length.n ELSE iv.length.n
    IN  IF iv.length.unit = "M" THEN replace_month_length(n)
        ELSE IF iv.length.unit = "W" THEN 7 * n
        ELSE n

\* utils.get_smallest_calendar_freq: the error raised and the Timedelta returned
get_smallest_calendar_freq(calendar) ==
    LET intervals == calendar.targets \o calendar.precursors
        lengths == {length_timedelta(intervals[i]) : i \in 1..Len(intervals)}
    IN  IF intervals = <<>>
        THEN [error |-> "ValueError: min() arg is an empty sequence", freq |-> 0]
        ELSE [error |-> "none",
              freq |-> CHOOSE d \in lengths : \A e \in lengths : d <= e]

\* the comparisons of check_input_frequency with the warning also given at
\* twice the data frequency
compare_frequencies_inclusive(data_freq, calendar_freq) ==
    IF data_freq.error # "none"
    THEN [error |-> data_freq.error, warned |-> {}]
    ELSE IF calendar_freq.error # "none"
    THEN [error |-> calendar_freq.error, warned |-> {}]
    ELSE IF calendar_freq.freq < data_freq.freq
    THEN [error |-> "ValueError: data of a lower time resolution than the calendar",
          warned |-> {}]
    ELSE IF calendar_freq.freq <= 2 * data_freq.freq
    THEN [error |-> "none",
          warned |-> {"UserWarning: data frequency very close to the calendar's"}]
    ELSE [error |-> "none", warned |-> {}]

\* the comparisons of check_input_frequency
compare_frequencies(data_freq, calendar_freq) ==
    IF data_freq.error # "none"
    THEN [error |-> data_freq.error, warned |-> {}]
    ELSE IF calendar_freq.error # "none"
    THEN [error |-> calendar_freq.error, warned |-> {}]
    ELSE IF calendar_freq.freq < data_freq.freq
    THEN [error |-> "ValueError: data of a lower time resolution than the calendar",
          warned |-> {}]
    ELSE IF calendar_freq.freq < 2 * data_freq.freq
    THEN [error |-> "none",
          warned |-> {"UserWarning: data frequency very close to the calendar's"}]
    ELSE [error |-> "none", warned |-> {}]

\* utils.check_input_frequency: the error raised and the warnings emitted
check_input_frequency(calendar, data) ==
    compare_frequencies(infer_input_data_freq(data),
                        get_smallest_calendar_freq(calendar))

\* utils.check_reserved_names: the error raised.  For xarray data,
\* data_names is a list of one item, the collection of the names of the data,
\* and no reserved name equals a collection
check_reserved_names(input_data) ==
    LET reserved_names_pd == {"anchor_year", "i_interval", "is_target"}
        reserved_names_xr == reserved_names_pd \cup {"left_bound", "right_bound"}
        n_data_names == 1
        name_is_item(name, i) == FALSE
    IN  IF input_data.type = "DataFrame"
        THEN IF \E i \in 1..Len(input_data.columns) :
                    input_data.columns[i] \in reserved_names_pd
             THEN "ValueError: reserved names"
             ELSE "none"
        ELSE IF is_xarray(input_data)
        THEN IF \E name \in reserved_names_xr :
                    \E i \in 1..n_data_names : name_is_item(name, i)
             THEN "ValueError: reserved names"
             ELSE "none"
        ELSE "none"

\* len(name) of the names the data and the results are given
len(name) ==
    CASE name = "t" -> 1
      [] name = "data" -> 4
      [] name = "data1" -> 5
      [] name = "interval" -> 8
      [] name = "is_target" -> 9
      [] name = "i_interval" -> 10
      [] name = "left_bound" -> 10
      [] name = "anchor_year" -> 11
      [] name = "right_bound" -> 11

\* utils.check_empty_intervals: the warnings emitted; indices_list is the
\* sequence of the items that iterating over the argument gives
check_empty_intervals(indices_list) ==
    IF \E i \in 1..Len(indices_list) : len(indices_list[i]) = 1
    THEN {"UserWarning: some intervals only contain a single data point"}
    ELSE IF \E i \in 1..Len(indices_list) : len(indices_list[i]) = 0
    THEN {"UserWarning: the data could not fully cover the calendar's intervals"}
    ELSE {}

(***************************************************************************)
(* resampling: a DataFrame is the record of its column labels (columns),   *)
(* the dtype of each column (dtypes) and the values of each column (data). *)
(***************************************************************************)
\* df[name] = values
setitem(df, name, values, dtype) ==
    LET names == {df.columns[i] : i \in 1..Len(df.columns)} \cup {name}
    IN  [type |-> "DataFrame",
         columns |-> IF \E i \in 1..Len(df.columns) : df.columns[i] = name
                     THEN df.columns ELSE Append(df.columns, name),
         dtypes |-> [c \in names |-> IF c = name THEN dtype ELSE df.dtypes[c]],
         data |-> [c \in names |-> IF c = name THEN values ELSE df.data[c]]]

\* the number of rows of a DataFrame
n_rows(df) == Len(df.data[df.columns[1]])

\* resampling._resample_bins_constructor, of the table of get_intervals()
_resample_bins_constructor(intervals) ==
    LET nr == Len(intervals.index)
        nc == Len(intervals.columns)
        \* melt: column after column, the rows of each in order
        row_of(k) == ((k - 1) % nr) + 1
        col_of(k) == ((k - 1) \div nr) + 1
        by_i_interval ==
            sort_positions([k \in 1..(nr * nc) |-> intervals.columns[col_of(k)]],
                           nr * nc, TRUE)
        by_anchor_year ==
            sort_positions([k \in 1..(nr * nc) |->
                               intervals.index[row_of(by_i_interval[k])]],
                           nr * nc, TRUE)
        at(k) == by_i_interval[by_anchor_year[k]]
    IN  [type |-> "DataFrame",
         columns |-> <<"anchor_year", "i_interval", "interval">>,
         dtypes |-> [c \in {"anchor_year", "i_interval", "interval"} |->
                        IF c = "interval" THEN "interval" ELSE "int64"],
         data |-> [c \in {"anchor_year", "i_interval", "interval"} |->
                     [k \in 1..(nr * nc) |->
                         IF c = "anchor_year" THEN intervals.index[row_of(at(k))]
                         ELSE IF c = "i_interval"
                         THEN intervals.columns[col_of(at(k))]
                         ELSE intervals.values[row_of(at(k))][col_of(at(k))]]]]

\* _contains with every interval closed on both sides
_contains_closed(interval_index, timestamps) ==
    [i \in 1..Len(interval_index) |->
        [k \in 1..Len(timestamps) |->
            /\ timestamps[k] >= interval_index[i].left
            /\ timestamps[k] <= interval_index[i].right]]

\* resampling._contains: the mask of shape (n_intervals, n_timestamps)
_contains(interval_index, timestamps) ==
    [i \in 1..Len(interval_index) |->
        [k \in 1..Len(timestamps) |->
            LET a == IF interval_index[i].closed \in {"left", "both"}
                     THEN timestamps[k] >= interval_index[i].left
                     ELSE timestamps[k] > interval_index[i].left
                b == IF interval_index[i].closed \in {"right", "both"}
                     THEN timestamps[k] <= interval_index[i].right
                     ELSE timestamps[k] < interval_index[i].right
            IN  a /\ b]]

\* values[row]: the values that the mask selects
masked(values, row) ==
    LET picked == SelectSeq([k \in 1..Len(values) |-> k], LAMBDA k : row[k])
    IN  [j \in 1..Len(picked) |-> values[picked[j]]]

\* the loop of _resample_pandas over the columns of the data: every column of
\* the model holds the same values
RECURSIVE assign_columns(_, _, _)
assign_columns(data, colnames, resampled_data) ==
    IF colnames = <<>> THEN data
    ELSE assign_columns(setitem(data, Head(colnames), resampled_data, "float64"),
                        Tail(colnames), resampled_data)

\* the name a Series or DataArray is given
name_of(input_data) ==
    IF input_data.name = "None" THEN "data" ELSE input_data.name

\* the columns of the DataFrame that _resample_pandas works on
colnames_of(input_data) ==
    IF input_data.type = "Series" THEN <<name_of(input_data)>>
    ELSE input_data.columns

\* the year range that an outcome of get_intervals() leaves in the calendar
year_range_of(intervals) ==
    [_first_year |-> intervals._first_year, _last_year |-> intervals._last_year]

\* the outcome of a call that raises err
raises(err, intervals) ==
    [error |-> err, warned |-> {}, returned |-> Null] @@ year_range_of(intervals)

\* getattr(np, how) of the values that each row of the mask selects
reduce_bins(how, values, contains_matrix) ==
    [i \in 1..Len(contains_matrix) |->
        resampling_method(how, masked(values, contains_matrix[i]))]

\* the error of the first reduction that raises one
first_error(resampled) ==
    resampled[CHOOSE i \in 1..Len(resampled) :
                  /\ resampled[i].error # "none"
                  /\ \A j \in 1..(i - 1) : resampled[j].error = "none"].error

\* the RuntimeWarning of numpy, when a reduction emits it
runtime_warnings(resampled) ==
    IF \E i \in 1..Len(resampled) : resampled[i].warning
    THEN {"RuntimeWarning"} ELSE {}

\* _resample_pandas from the reductions of the bins on
pandas_columns(intervals, data, colnames, resampled) ==
    IF colnames = <<>>
    THEN [error |-> "none", warned |-> {}, returned |-> data]
             @@ year_range_of(intervals)
    ELSE IF \E i \in 1..Len(resampled) : resampled[i].error # "none"
    THEN raises(first_error(resampled), intervals)
    ELSE [error |-> "none",
          warned |-> runtime_warnings(resampled),
          returned |-> assign_columns(data, colnames,
                                      [i \in 1..Len(resampled) |->
                                          resampled[i].value])]
             @@ year_range_of(intervals)

\* _resample_pandas from the bins on
pandas_bins(intervals, data, input_data, how) ==
    pandas_columns(
        intervals, data, colnames_of(input_data),
        reduce_bins(how, values_of(input_data),
                    _contains(data.data["interval"], time_values(input_data))))

\* _resample_pandas from the table of get_intervals() on
pandas_intervals(intervals, input_data, how) ==
    IF intervals.error # "none" THEN raises(intervals.error, intervals)
    ELSE pandas_bins(intervals, _resample_bins_constructor(intervals.returned),
                     input_data, how)

\* resampling._resample_pandas: the error raised, the warnings numpy emits,
\* the DataFrame returned and the year range get_intervals() leaves in the
\* calendar
_resample_pandas(calendar, input_data, how) ==
    pandas_intervals(get_intervals_of(calendar), input_data, how)

\* the table of get_intervals() as the coordinates of a Dataset order it:
\* the anchor years and the interval numbers ascending
by_coordinates(tbl) ==
    LET by_year == sort_positions(tbl.index, Len(tbl.index), TRUE)
        by_i == sort_positions(tbl.columns, Len(tbl.columns), TRUE)
    IN  [index |-> [y \in 1..Len(tbl.index) |-> tbl.index[by_year[y]]],
         columns |-> [i \in 1..Len(tbl.columns) |-> tbl.columns[by_i[i]]],
         values |-> [y \in 1..Len(tbl.index) |->
                        [i \in 1..Len(tbl.columns) |->
                            tbl.values[by_year[y]][by_i[i]]]]]

\* the bins of the table, row after row
bins_of(tbl) ==
    [b \in 1..(Len(tbl.index) * Len(tbl.columns)) |->
        tbl.values[((b - 1) \div Len(tbl.columns)) + 1]
                  [((b - 1) % Len(tbl.columns)) + 1]]

\* _resample_dataset from the reductions of the bins on.  np.squeeze makes
\* the resampled data of a single bin an array without dimensions, which
\* xr.DataArray refuses to build with the anch_int coordinate.
dataset_variables(intervals, tbl, data_vars, resampled) ==
    IF \E b \in 1..Len(resampled) : resampled[b].error # "none"
    THEN raises(first_error(resampled), intervals)
    ELSE IF Len(resampled) = 1
    THEN [error |-> "ValueError: coordinate anch_int has dimensions that the DataArray has not",
          warned |-> runtime_warnings(resampled),
          returned |-> Null] @@ year_range_of(intervals)
    ELSE [error |-> "none",
          warned |-> runtime_warnings(resampled),
          returned |->
              [type |-> "Dataset",
               anchor_year |-> tbl.index,
               i_interval |-> tbl.columns,
               left_bound |-> [y \in 1..Len(tbl.index) |->
                                  [i \in 1..Len(tbl.columns) |->
                                      tbl.values[y][i].left]],
               right_bound |-> [y \in 1..Len(tbl.index) |->
                                   [i \in 1..Len(tbl.columns) |->
                                       tbl.values[y][i].right]],
               data_vars |-> data_vars,
               data |-> [name \in {data_vars[v] : v \in 1..Len(data_vars)} |->
                           [y \in 1..Len(tbl.index) |->
                               [i \in 1..Len(tbl.columns) |->
                                   resampled[(y - 1) * Len(tbl.columns) + i]
                                       .value]]],
               attrs |-> {}]] @@ year_range_of(intervals)

\* _resample_dataset from the ordered table on
dataset_bins(intervals, tbl, input_data, how) ==
    dataset_variables(
        intervals, tbl, input_data.columns,
        reduce_bins(how, values_of(input_data),
                    _contains(bins_of(tbl), time_values(input_data))))

\* _resample_dataset from the table of calendar.flat on
dataset_intervals(intervals, input_data, how) ==
    IF intervals.error # "none" THEN raises(intervals.error, intervals)
    ELSE dataset_bins(intervals, by_coordinates(intervals.returned),
                      input_data, how)

\* resampling._resample_dataset, for a Dataset whose variables have `time` as
\* their only dimension: the error raised, the warnings numpy emits, the
\* Dataset returned and the year range that calendar.flat leaves in the
\* calendar.  The Dataset is the record of its coordinates anchor_year and
\* i_interval, the bounds left_bound[y][i] and right_bound[y][i], its
\* variables (data_vars) and their values data[name][y][i].
_resample_dataset(calendar, input_data, how) ==
    dataset_intervals(get_intervals_of(calendar), input_data, how)

\* the comparison > 0 of a column, by its dtype
greater_than_zero(x, dtype) ==
    IF dtype = "float64" THEN ~isnan(x) /\ x.num > 0 ELSE x > 0

\* _mark_target_period that marks the first target only
_mark_target_period_first(input_data) ==
    IF input_data.type = "DataFrame"
    THEN setitem(input_data, "is_target",
                 [k \in 1..n_rows(input_data) |->
                     input_data.data["i_interval"][k] = 1],
                 "bool")
    ELSE [is_target |-> [i \in 1..Len(input_data.i_interval) |->
                            input_data.i_interval[i] = 1]] @@ input_data

\* resampling._mark_target_period
_mark_target_period(input_data) ==
    IF input_data.type = "DataFrame"
    THEN setitem(input_data, "is_target",
                 [k \in 1..n_rows(input_data) |->
                     greater_than_zero(input_data.data["i_interval"][k],
                                       input_data.dtypes["i_interval"])],
                 "bool")
    ELSE [is_target |-> [i \in 1..Len(input_data.i_interval) |->
                            input_data.i_interval[i] > 0]] @@ input_data

\* _attrs.add_attrs: the attributes of the resampled xarray data
add_attrs ==
    {"lilio_version", "lilio_calendar_anchor_date", "lilio_calendar_code",
     "history"}

\* the DataArray or Dataset that resample returns
with_attrs(input_data, marked) ==
    IF input_data.type = "DataArray"
    THEN [type |-> "DataArray", name |-> name_of(input_data),
          anchor_year |-> marked.anchor_year,
          i_interval |-> marked.i_interval,
          left_bound |-> marked.left_bound,
          right_bound |-> marked.right_bound,
          is_target |-> marked.is_target,
          values |-> marked.data[name_of(input_data)],
          attrs |-> add_attrs]
    ELSE [marked EXCEPT !.attrs = add_attrs]

\* resample from the resampled data on
resample_marked(input_data, warned_before, resampled) ==
    IF resampled.error # "none"
    THEN [resampled EXCEPT !.warned = warned_before \cup @]
    ELSE [resampled EXCEPT
             !.warned =
                 warned_before \cup @
                     \cup check_empty_intervals(
                              IF is_pandas(input_data)
                              THEN resampled.returned.columns
                              ELSE resampled.returned.data_vars),
             !.returned =
                 IF is_pandas(input_data) THEN _mark_target_period(@)
                 ELSE with_attrs(input_data, _mark_target_period(@))]

\* resample from the check of the frequencies on, which has outcome frequency
resample_checked(calendar, input_data, how, frequency) ==
    IF frequency.error # "none"
    THEN raises(frequency.error, calendar)
    ELSE IF check_reserved_names(input_data) # "none"
    THEN [raises(check_reserved_names(input_data), calendar)
             EXCEPT !.warned = frequency.warned]
    ELSE resample_marked(
             input_data, frequency.warned,
             IF is_pandas(input_data)
             THEN _resample_pandas(calendar, input_data, how)
             ELSE IF input_data.type = "DataArray"
             THEN _resample_dataset(
                      calendar,
                      [input_data EXCEPT !.type = "Dataset",
                                         !.columns = <<name_of(input_data)>>],
                      how)
             ELSE _resample_dataset(calendar, input_data, how))

\* the outcome of resampling.resample(calendar, input_data, how): the error
\* raised, the warnings emitted, the value returned and the year range left in
\* the calendar
resample_of(calendar, input_data, how) ==
    IF calendar._mapping = "None"
    THEN raises("ValueError: Generate a calendar map before calling resample",
                calendar)
    ELSE IF _check_valid_resampling_methods(how) # "none"
    THEN raises(_check_valid_resampling_methods(how), calendar)
    ELSE IF check_timeseries(input_data) # "none"
    THEN raises(check_timeseries(input_data), calendar)
    ELSE resample_checked(calendar, input_data, how,
                          check_input_frequency(calendar, input_data))

\* input_data as resample leaves it: once the checks have passed, a DataArray
\* is given its name (input_data.name = da_name)
input_data_after(calendar, input_data, how) ==
    IF /\ calendar._mapping # "None"
       /\ _check_valid_resampling_methods(how) = "none"
       /\ check_timeseries(input_data) = "none"
       /\ check_input_frequency(calendar, input_data).error = "none"
       /\ check_reserved_names(input_data) = "none"
       /\ input_data.type = "DataArray"
    THEN [input_data EXCEPT !.name = name_of(input_data)]
    ELSE input_data

(***************************************************************************)
(* The inputs the calls are made with.                                     *)
(***************************************************************************)
Freq(n, unit) == [n |-> n, unit |-> unit]

\* the canonical anchors "12-31" and "2", with their formats
Anchors ==
    { [_anchor |-> <<"1", "2", "-", "3", "1">>, _anchor_fmt |-> "%m-%d"],
      [_anchor |-> <<"2">>, _anchor_fmt |-> "%m"] }

\* the int n
Integer(n) == [type |-> "int", value |-> n]

\* the (length, gap) pairs add_intervals is called with, for targets and for
\* precursors
TargetArgs ==
    { [length |-> Freq(1, "d"), gap |-> Freq(0, "d")],
      [length |-> Freq(180, "d"), gap |-> Freq(0, "d")],
      [length |-> Freq(1, "M"), gap |-> Freq(10, "d")] }
PrecursorArgs ==
    { [length |-> Freq(365, "d"), gap |-> Freq(0, "d")],
      [length |-> Freq(180, "d"), gap |-> Freq(0, "d")],
      [length |-> Freq(10, "d"), gap |-> Freq(-5, "d")] }

\* the (role, length, gap, n) add_intervals is called with: n = 1 or 2 of every
\* pair, and three calls that are refused
AddIntervalsArgs ==
    { [role |-> "target", length |-> a.length, gap |-> a.gap,
        n |-> Integer(n)] : a \in TargetArgs, n \in 1..2 }
    \cup { [role |-> "precursor", length |-> a.length, gap |-> a.gap,
            n |-> Integer(n)] : a \in PrecursorArgs, n \in 1..2 }
    \cup { [role |-> "target", length |-> Freq(1, "d"), gap |-> Freq(0, "d"),
            n |-> Integer(0)],
          [role |-> "other", length |-> Freq(1, "d"), gap |-> Freq(0, "d"),
            n |-> Integer(1)],
          [role |-> "precursor", length |-> Freq(1, "d"), gap |-> Freq(0, "d"),
            n |-> [type |-> "float", value |-> 2]] }

\* the years map_years is called with
Years == 2019..(2019 + YearSpan)

\* a pandas Series of np.arange(periods) with the index
\* pd.date_range(start, periods=periods, freq=f"{freq}d")
DateRange(start, periods, freq) ==
    [type |-> "Series", datetime |-> TRUE, start |-> start,
     periods |-> periods, freq |-> freq, dropped |-> {},
     name |-> "None", columns |-> <<>>,
     fill |-> [kind |-> "arange", value |-> 0]]

\* the data map_to_data is called with
MapData ==
    { DateRange(Timestamp(2019, 1, 1), 1097, 1),   \* 2019-01-01 .. 2022-01-01
      DateRange(Timestamp(2020, 7, 4), 19, 30),    \* 2020-07-04 .. 2021-12-26
      DateRange(Timestamp(2020, 12, 25), 40, 10),  \* 2020-12-25 .. 2022-01-19
      [DateRange(Timestamp(2020, 1, 1), 10, 1) EXCEPT !.datetime = FALSE] }

(***************************************************************************)
(* The calendar after Calendar(anchor, allow_overlap).                     *)
(***************************************************************************)
Init ==
    /\ \E a \in Anchors : _anchor = a._anchor /\ _anchor_fmt = a._anchor_fmt
    /\ _allow_overlap \in BOOLEAN
    /\ targets = <<>>
    /\ precursors = <<>>
    /\ _mapping = "None"
    /\ _first_year = Null
    /\ _last_year = Null
    /\ _first_timestamp = Null
    /\ _last_timestamp = Null
    /\ call = [op |-> "Calendar"]
    /\ error = "none"
    /\ returned = Null
    /\ warned = {}

\* n copies of item
Repeat(item, n) == [i \in 1..n |-> item]

\* Calendar.add_intervals(role, length, gap, n)
add_intervals(role, length, gap, n) ==
    /\ call' = [op |-> "add_intervals"]
    /\ returned' = Null
    /\ warned' = {}
    /\ UNCHANGED <<_anchor, _anchor_fmt, _allow_overlap, _mapping, _first_year,
                   _last_year, _first_timestamp, _last_timestamp>>
    /\ IF n.type # "int" \/ n.value <= 0
             \/ role \notin {"target", "precursor"}
       THEN /\ error' = "ValueError"
            /\ UNCHANGED <<targets, precursors>>
       ELSE /\ error' = "none"
            /\ IF role = "target"
               THEN /\ Len(targets) + Len(precursors) + n.value <= MaxIntervals
                    /\ targets' =
                           targets \o Repeat(Interval(role, length, gap), n.value)
                    /\ UNCHANGED precursors
               ELSE /\ Len(targets) + Len(precursors) + n.value <= MaxIntervals
                    /\ precursors' =
                           precursors
                               \o Repeat(Interval(role, length, gap), n.value)
                    /\ UNCHANGED targets

\* map_years with the years stored before the range is checked
map_years_stored_first(start, end) ==
    /\ call' = [op |-> "map_years"]
    /\ warned' = {}
    /\ UNCHANGED <<_anchor, _anchor_fmt, _allow_overlap, targets, precursors>>
    /\ error' = IF start > end THEN "ValueError" ELSE "none"
    /\ returned' = IF start > end THEN Null ELSE "self"
    /\ _first_year' = start
    /\ _last_year' = end
    /\ _mapping' = "years"
    /\ _first_timestamp' = Null
    /\ _last_timestamp' = Null

\* Calendar.map_years(start, end)
map_years(start, end) ==
    /\ call' = [op |-> "map_years"]
    /\ warned' = {}
    /\ UNCHANGED <<_anchor, _anchor_fmt, _allow_overlap, targets, precursors>>
    /\ IF start > end
       THEN /\ error' = "ValueError"
            /\ returned' = Null
            /\ UNCHANGED <<_mapping, _first_year, _last_year, _first_timestamp,
                           _last_timestamp>>
       ELSE /\ error' = "none"
            /\ returned' = "self"
            /\ _first_year' = start
            /\ _last_year' = end
            /\ _mapping' = "years"
            /\ _first_timestamp' = Null
            /\ _last_timestamp' = Null

\* Calendar.map_to_data(input_data)
map_to_data(input_data) ==
    /\ call' = [op |-> "map_to_data"]
    /\ warned' = {}
    /\ UNCHANGED <<_anchor, _anchor_fmt, _allow_overlap, targets, precursors>>
    /\ IF check_timeseries(input_data) # "none"
       THEN /\ error' = check_timeseries(input_data)
            /\ returned' = Null
            /\ UNCHANGED <<_mapping, _first_year, _last_year, _first_timestamp,
                           _last_timestamp>>
       ELSE /\ error' = "none"
            /\ returned' = "self"
            /\ _first_timestamp' = index_min(input_data)
            /\ _last_timestamp' = index_max(input_data)
            /\ _mapping' = "data"
            /\ _first_year' = Null
            /\ _last_year' = Null

\* Calendar.get_intervals()
get_intervals ==
    \E out \in {get_intervals_of(Self)} :
        /\ call' = [op |-> "get_intervals"]
        /\ warned' = {}
        /\ error' = out.error
        /\ returned' = out.returned
        /\ _first_year' = out._first_year
        /\ _last_year' = out._last_year
        /\ UNCHANGED <<_anchor, _anchor_fmt, _allow_overlap, targets, precursors,
                       _mapping, _first_timestamp, _last_timestamp>>

Next ==
    \/ get_intervals
    \/ \E a \in AddIntervalsArgs : add_intervals(a.role, a.length, a.gap, a.n)
    \/ \E start \in Years, end \in Years : map_years(start, end)
    \/ \E input_data \in MapData : map_to_data(input_data)

Spec == Init /\ [][Next]_vars

(***************************************************************************)
(* resampling.resample(calendar, input_data, how), on calendars of days.   *)
(***************************************************************************)
\* the (role, length, gap, n) add_intervals is called with
ResampleIntervals ==
    { [role |-> "target", length |-> Freq(4, "d"), gap |-> Freq(0, "d"),
       n |-> Integer(1)],
      [role |-> "precursor", length |-> Freq(2, "d"), gap |-> Freq(0, "d"),
       n |-> Integer(1)],
      [role |-> "precursor", length |-> Freq(4, "d"), gap |-> Freq(-2, "d"),
       n |-> Integer(1)] }

\* the years map_years is called with
ResampleYears == 2020..(2019 + YearSpan)

\* daily data, 2020-12-22 .. 2021-01-04
Daily == DateRange(Timestamp(2020, 12, 22), 14, 1)
\* data of every second day, 2020-12-25 .. 2021-01-06
TwoDaily == DateRange(Timestamp(2020, 12, 25), 7, 2)
\* data of every third day, 2020-12-25 .. 2021-01-06
ThreeDaily == DateRange(Timestamp(2020, 12, 25), 5, 3)
\* data of every twentieth day, 2020-11-21 .. 2020-12-31
TwentyDaily == DateRange(Timestamp(2020, 11, 21), 3, 20)

DailyFrame == [Daily EXCEPT !.type = "DataFrame", !.columns = <<"data1">>]
ConstantSeries ==
    [Daily EXCEPT !.name = "data1", !.fill = [kind |-> "full", value |-> 7]]
TwoDailyDataset == [TwoDaily EXCEPT !.type = "Dataset", !.columns = <<"data1">>]
DailyDataArray == [Daily EXCEPT !.type = "DataArray"]
\* daily data with a NaN and two days missing
GappyFrame ==
    [Daily EXCEPT !.type = "DataFrame", !.columns = <<"data1">>,
                  !.dropped = {8, 9}, !.fill = [kind |-> "nan", value |-> 0]]

\* data whose name or column is a name that resample writes
ReservedSeries == [Daily EXCEPT !.name = "anchor_year"]
ReservedFrame ==
    [Daily EXCEPT !.type = "DataFrame", !.columns = <<"anchor_year">>]

\* data that fail more than one check of resample: no data at all, a frame
\* with a reserved column whose index holds no dates, and a frame with a
\* reserved column that is sampled every twentieth day
NoData == [Daily EXCEPT !.type = "NoneType", !.datetime = FALSE]
ReservedUndatedFrame == [ReservedFrame EXCEPT !.datetime = FALSE]
ReservedTwentyDailyFrame ==
    [TwentyDaily EXCEPT !.type = "DataFrame", !.columns = <<"anchor_year">>]

\* the data the calendar is mapped to
ResampleMapData == {Daily}

\* the (input_data, how) resample is called with
ResampleArgs ==
    { [input_data |-> DailyFrame, how |-> VALID_METHODS[i]] :
          i \in 1..Len(VALID_METHODS) }
    \cup { [input_data |-> d, how |-> "mean"] :
               d \in {ConstantSeries, TwoDaily, ThreeDaily, TwoDailyDataset,
                      DailyDataArray, TwentyDaily, ReservedSeries,
                      ReservedFrame} }
    \cup { [input_data |-> GappyFrame, how |-> "nansum"],
           [input_data |-> TwoDaily, how |-> "min"],
           [input_data |-> DailyFrame, how |-> "average"],
           [input_data |-> NoData, how |-> "average"],
           [input_data |-> NoData, how |-> "mean"],
           [input_data |-> ReservedUndatedFrame, how |-> "mean"],
           [input_data |-> ReservedTwentyDailyFrame, how |-> "mean"] }

\* resample(calendar, input_data, how)
resample(input_data, how) ==
    \E out \in {resample_of(Self, input_data, how)} :
        /\ call' = [op |-> "resample", input_data |-> input_data, how |-> how,
                    input_data_after |->
                        input_data_after(Self, input_data, how)]
        /\ warned' = out.warned
        /\ error' = out.error
        /\ returned' = out.returned
        /\ _first_year' = out._first_year
        /\ _last_year' = out._last_year
        /\ UNCHANGED <<_anchor, _anchor_fmt, _allow_overlap, targets, precursors,
                       _mapping, _first_timestamp, _last_timestamp>>

\* the calendar after Calendar("12-31")
InitResample == Init /\ _anchor_fmt = "%m-%d" /\ ~_allow_overlap

NextResample ==
    \/ \E a \in ResampleArgs : resample(a.input_data, a.how)
    \/ \E a \in ResampleIntervals : add_intervals(a.role, a.length, a.gap, a.n)
    \/ \E start \in ResampleYears, end \in ResampleYears : map_years(start, end)
    \/ \E input_data \in ResampleMapData : map_to_data(input_data)

SpecResample == InitResample /\ [][NextResample]_vars

(***************************************************************************)
(* calendar_shifter: _gap_shift, calendar_shifter and staggered_calendar.  *)
(* A shift given as a dictionary is an object of the caller: the outcome   *)
(* of a call carries the dictionary as the call leaves it.                 *)
(***************************************************************************)
MaxShifts == 2

\* the dictionary of a gap or shift: parsed from a string, or the dictionary
\* itself
time_dict(value) ==
    IF isinstance_str(value) THEN parse_freqstr_to_dateoffset(value) ELSE value

\* shift_time_dict.update((key, value * -1) for key, value in ...)
negated(dict) == [key \in DOMAIN dict |-> dict[key] * (0 - 1)]

\* the returned gap with the old gap forgotten
sum_of_dicts_overwritten(gap_time_dict, shift_time_dict) ==
    [key \in DOMAIN gap_time_dict \cup DOMAIN shift_time_dict |->
        get(shift_time_dict, key)]

\* {key: gap_time_dict.get(key, 0) + shift_time_dict.get(key, 0)
\*  for key in set(gap_time_dict) | set(shift_time_dict)}
sum_of_dicts(gap_time_dict, shift_time_dict) ==
    [key \in DOMAIN gap_time_dict \cup DOMAIN shift_time_dict |->
        get(gap_time_dict, key) + get(shift_time_dict, key)]

\* shift_time_dict of _gap_shift when it returns
signed_shift(interval, shift) ==
    IF interval.role = "precursor" THEN negated(time_dict(shift))
    ELSE time_dict(shift)

\* _gap_shift with the shift of a precursor not inverted
_gap_shift_unsigned(interval, shift) ==
    [gap |-> sum_of_dicts(time_dict(interval.gap), time_dict(shift)),
     shift |-> shift]

\* _gap_shift(interval, shift): the gap it returns and the shift as it leaves
\* it; a dictionary shift is updated in place, a string is parsed into a new
\* dictionary
_gap_shift(interval, shift) ==
    [gap |-> sum_of_dicts(time_dict(interval.gap),
                          signed_shift(interval, shift)),
     shift |-> IF isinstance_str(shift) THEN shift
               ELSE signed_shift(interval, shift)]

\* calendar_shifted.precursors[0].gap = _gap_shift(calendar.precursors[0], shift)
shift_precursor(calendar, calendar_shifted, out) ==
    [error |-> "none",
     returned |-> [calendar_shifted EXCEPT !.precursors[1].gap = out.gap],
     shift |-> out.shift]

\* calendar_shifted.targets[0].gap = _gap_shift(calendar.targets[0], shift),
\* then the precursor with the shift that call left
shift_target(calendar, out) ==
    shift_precursor(calendar, [calendar EXCEPT !.targets[1].gap = out.gap],
                    _gap_shift(calendar.precursors[1], out.shift))

\* calendar_shifter(calendar, shift): the error raised, the calendar returned
\* (a deep copy with the two gaps replaced) and the shift as the call leaves it
calendar_shifter_of(calendar, shift) ==
    IF Len(calendar.targets) = 0 \/ Len(calendar.precursors) = 0
    THEN [error |-> "IndexError", returned |-> Null, shift |-> shift]
    ELSE shift_target(calendar, _gap_shift(calendar.targets[1], shift))

\* the loop of staggered_calendar, with n_shifts rounds left
RECURSIVE stagger(_, _, _)
append_shifted(cal_staggered, out, n_shifts) ==
    IF out.error # "none"
    THEN [error |-> out.error, returned |-> Null, shift |-> out.shift]
    ELSE stagger(Append(cal_staggered, out.returned), out.shift, n_shifts - 1)

stagger(cal_staggered, shift, n_shifts) ==
    IF n_shifts = 0
    THEN [error |-> "none", returned |-> cal_staggered, shift |-> shift]
    ELSE append_shifted(
             cal_staggered,
             calendar_shifter_of(cal_staggered[Len(cal_staggered)], shift),
             n_shifts)

\* staggered_calendar(calendar, shift, n_shifts)
staggered_calendar_of(calendar, shift, n_shifts) ==
    IF n_shifts.type # "int" \/ n_shifts.value <= 0
    THEN [error |-> "ValueError", returned |-> Null, shift |-> shift]
    ELSE stagger(<<calendar>>, shift, n_shifts.value)

\* the (role, length, gap, n) add_intervals is called with
ShiftIntervals ==
    { [role |-> "target", length |-> Freq(1, "d"), gap |-> Freq(0, "d"),
       n |-> Integer(1)],
      [role |-> "target", length |-> Freq(1, "M"), gap |-> Freq(1, "W"),
       n |-> Integer(1)],
      [role |-> "precursor", length |-> Freq(365, "d"), gap |-> Freq(0, "d"),
       n |-> Integer(1)] }

\* the years map_years is called with
ShiftYears == 2020..(2019 + YearSpan)

\* the shifts: frequency strings and dictionaries of units, each with its
\* negation
Shifts ==
    { Freq(7, "d"), Freq(-7, "d"), Freq(2, "M"), Freq(-2, "M"),
      [weeks |-> 1, months |-> 2], [weeks |-> -1, months |-> -2] }

\* the n_shifts staggered_calendar is called with
ShiftCounts ==
    { [type |-> "int", value |-> n] : n \in 0..MaxShifts }
    \cup { [type |-> "float", value |-> 2] }

\* the calendars the caller holds: the calendar itself and, after a
\* calendar_shifter call on it, the calendar that call returned
held_calendars ==
    { [calendar |-> Self, earlier |-> <<>>] }
    \cup (IF call.op = "calendar_shifter" /\ error = "none"
             /\ call.earlier = <<>>
          THEN { [calendar |-> returned,
                  earlier |-> Append(call.earlier,
                                     [calendar |-> call.calendar,
                                      shift |-> call.shift])] }
          ELSE {})

\* calendar_shifter(calendar, shift), on a calendar the caller holds
calendar_shifter(held, shift) ==
    \E out \in {calendar_shifter_of(held.calendar, shift)} :
        /\ call' = [op |-> "calendar_shifter", calendar |-> held.calendar,
                    earlier |-> held.earlier, shift |-> shift,
                    shift_after |-> out.shift]
        /\ warned' = {}
        /\ error' = out.error
        /\ returned' = out.returned
        /\ UNCHANGED calendar_vars

\* staggered_calendar(calendar, shift, n_shifts)
staggered_calendar(shift, n_shifts) ==
    \E out \in {staggered_calendar_of(Self, shift, n_shifts)} :
        /\ call' = [op |-> "staggered_calendar", calendar |-> Self,
                    shift |-> shift, n_shifts |-> n_shifts,
                    shift_after |-> out.shift]
        /\ warned' = {}
        /\ error' = out.error
        /\ returned' = out.returned
        /\ UNCHANGED calendar_vars

NextShift ==
    \/ \E held \in held_calendars, shift \in Shifts :
           calendar_shifter(held, shift)
    \/ \E shift \in Shifts, n_shifts \in ShiftCounts :
           staggered_calendar(shift, n_shifts)
    \/ \E a \in ShiftIntervals : add_intervals(a.role, a.length, a.gap, a.n)
    \/ \E start \in ShiftYears, end \in ShiftYears : map_years(start, end)

\* the calendar after Calendar(anchor)
InitShift == Init /\ ~_allow_overlap

SpecShift == InitShift /\ [][NextShift]_vars

(***************************************************************************)
(* Calendar._parse_anchor, with utils.check_month_day, check_week_day and  *)
(* get_month_names.  An anchor input is its type and its characters.       *)
(***************************************************************************)
\* the regular expression \d
IsDigit(c) == c \in {"0", "1", "2", "3", "4", "5", "6", "7", "8", "9"}
all_digits(s) == \A i \in 1..Len(s) : IsDigit(s[i])

\* re.fullmatch("\\d{1,2}-\\d{1,2}", anchor_str)
fullmatch_month_day(s) ==
    \E p \in 2..3 :
        /\ Len(s) >= p + 1
        /\ Len(s) <= p + 2
        /\ s[p] = "-"
        /\ all_digits(SubSeq(s, 1, p - 1))
        /\ all_digits(SubSeq(s, p + 1, Len(s)))

\* re.fullmatch("\\d{1,2}", anchor_str)
fullmatch_month(s) == Len(s) \in 1..2 /\ all_digits(s)

\* re.fullmatch("W\\d{2}-\\d", anchor_str): a week of two digits only
fullmatch_week_day_two_digits(s) ==
    /\ Len(s) = 5
    /\ s[1] = "W"
    /\ all_digits(SubSeq(s, 2, 3))
    /\ s[4] = "-"
    /\ IsDigit(s[5])

\* re.fullmatch("W\\d{1,2}-\\d", anchor_str)
fullmatch_week_day(s) ==
    /\ Len(s) \in 4..5
    /\ s[1] = "W"
    /\ all_digits(SubSeq(s, 2, Len(s) - 2))
    /\ s[Len(s) - 1] = "-"
    /\ IsDigit(s[Len(s)])

\* re.fullmatch("W\\d{1,2}", anchor_str)
fullmatch_week(s) ==
    Len(s) \in 2..3 /\ s[1] = "W" /\ all_digits(SubSeq(s, 2, Len(s)))

\* check_month_day with 29 February allowed
check_month_day_leap(month, day) ==
    IF month \in {1, 3, 5, 7, 8, 10, 12}
    THEN IF day < 1 \/ day > 31 THEN "ValueError" ELSE "none"
    ELSE IF month \in {4, 6, 9, 11}
    THEN IF day < 1 \/ day > 30 THEN "ValueError" ELSE "none"
    ELSE IF month = 2
    THEN IF day < 1 \/ day > 29 THEN "ValueError" ELSE "none"
    ELSE "ValueError"

\* utils.check_month_day: the error it raises
check_month_day(month, day) ==
    IF month \in {1, 3, 5, 7, 8, 10, 12}
    THEN IF day < 1 \/ day > 31 THEN "ValueError" ELSE "none"
    ELSE IF month \in {4, 6, 9, 11}
    THEN IF day < 1 \/ day > 30 THEN "ValueError" ELSE "none"
    ELSE IF month = 2
    THEN IF day < 1 \/ day > 28 THEN "ValueError" ELSE "none"
    ELSE "ValueError"

\* utils.check_week_day: the error it raises
check_week_day(week, day) ==
    IF week = 53 THEN "ValueError"
    ELSE IF week < 1 \/ week > 52 THEN "ValueError"
    ELSE IF day < 1 \/ day > 7 THEN "ValueError"
    ELSE "none"

\* utils.get_month_names
get_month_names ==
    <<[name |-> <<"j", "a", "n", "u", "a", "r", "y">>, number |-> 1],
      [name |-> <<"f", "e", "b", "r", "u", "a", "r", "y">>, number |-> 2],
      [name |-> <<"m", "a", "r", "c", "h">>, number |-> 3],
      [name |-> <<"a", "p", "r", "i", "l">>, number |-> 4],
      [name |-> <<"m", "a", "y">>, number |-> 5],
      [name |-> <<"j", "u", "n", "e">>, number |-> 6],
      [name |-> <<"j", "u", "l", "y">>, number |-> 7],
      [name |-> <<"a", "u", "g", "u", "s", "t">>, number |-> 8],
      [name |-> <<"s", "e", "p", "t", "e", "m", "b", "e", "r">>, number |-> 9],
      [name |-> <<"o", "c", "t", "o", "b", "e", "r">>, number |-> 10],
      [name |-> <<"n", "o", "v", "e", "m", "b", "e", "r">>, number |-> 11],
      [name |-> <<"d", "e", "c", "e", "m", "b", "e", "r">>, number |-> 12],
      [name |-> <<"j", "a", "n">>, number |-> 1],
      [name |-> <<"f", "e", "b">>, number |-> 2],
      [name |-> <<"m", "a", "r">>, number |-> 3],
      [name |-> <<"a", "p", "r">>, number |-> 4],
      [name |-> <<"j", "u", "n">>, number |-> 6],
      [name |-> <<"j", "u", "l">>, number |-> 7],
      [name |-> <<"a", "u", "g">>, number |-> 8],
      [name |-> <<"s", "e", "p">>, number |-> 9],
      [name |-> <<"o", "c", "t">>, number |-> 10],
      [name |-> <<"n", "o", "v">>, number |-> 11],
      [name |-> <<"d", "e", "c">>, number |-> 12]>>

\* str.lower, on the letters A..Z
lower_char(c) ==
    IF \E i \in 1..26 : <<"A", "B", "C", "D", "E", "F", "G", "H", "I", "J", "K", "L", "M", "N", "O", "P", "Q", "R", "S", "T", "U", "V", "W", "X", "Y", "Z">>[i] = c
    THEN <<"a", "b", "c", "d", "e", "f", "g", "h", "i", "j", "k", "l", "m", "n", "o", "p", "q", "r", "s", "t", "u", "v", "w", "x", "y", "z">>[
             CHOOSE i \in 1..26 : <<"A", "B", "C", "D", "E", "F", "G", "H", "I", "J", "K", "L", "M", "N", "O", "P", "Q", "R", "S", "T", "U", "V", "W", "X", "Y", "Z">>[i] = c]
    ELSE c
lower(s) == [i \in 1..Len(s) |-> lower_char(s[i])]

\* name in utils.get_month_names()
is_month_name(name) ==
    \E i \in 1..Len(get_month_names) : get_month_names[i].name = name
\* utils.get_month_names()[name]
month_number(name) ==
    get_month_names[
        CHOOSE i \in 1..Len(get_month_names) : get_month_names[i].name = name
    ].number

\* the outcome of a branch of _parse_anchor: the error of the check, or the
\* anchor and its format
parsed(checked, anchor_str, fmt) ==
    IF checked # "none"
    THEN [error |-> checked, anchor_str |-> <<>>, fmt |-> "None"]
    ELSE [error |-> "none", anchor_str |-> anchor_str, fmt |-> fmt]

\* Calendar._parse_anchor
_parse_anchor(anchor) ==
    IF anchor.type # "str"
    THEN parsed("ValueError", <<>>, "None")
    ELSE IF fullmatch_month_day(anchor.chars)
    THEN parsed(check_month_day(
                    ParseInt(SubSeq(anchor.chars, 1,
                                    Find(anchor.chars, "-") - 1)),
                    ParseInt(SubSeq(anchor.chars, Find(anchor.chars, "-") + 1,
                                    Len(anchor.chars)))),
                anchor.chars, "%m-%d")
    ELSE IF fullmatch_month(anchor.chars)
    THEN parsed(check_month_day(ParseInt(anchor.chars), 1), anchor.chars, "%m")
    ELSE IF fullmatch_week_day(anchor.chars)
    THEN parsed(check_week_day(
                    ParseInt(SubSeq(anchor.chars, 2, Len(anchor.chars) - 2)),
                    ParseInt(SubSeq(anchor.chars, Len(anchor.chars),
                                    Len(anchor.chars)))),
                anchor.chars, "W%W-%w")
    ELSE IF fullmatch_week(anchor.chars)
    THEN parsed(check_week_day(
                    ParseInt(SubSeq(anchor.chars, 2, Len(anchor.chars))), 1),
                anchor.chars \o <<"-", "1">>, "W%W-%w")
    ELSE IF is_month_name(lower(anchor.chars))
    THEN parsed("none", str(month_number(lower(anchor.chars))), "%m")
    ELSE parsed("ValueError", <<>>, "None")

\* the parts the anchor inputs are put together from
MonthParts ==
    { <<"0">>,
      <<"0", "0">>,
      <<"1">>,
      <<"2">>,
      <<"0", "2">>,
      <<"4">>,
      <<"0", "9">>,
      <<"1", "2">>,
      <<"1", "3">>,
      <<"3", "1">> }
DayParts ==
    { <<"0">>,
      <<"1">>,
      <<"0", "5">>,
      <<"2", "8">>,
      <<"2", "9">>,
      <<"3", "0">>,
      <<"3", "1">>,
      <<"3", "2">> }
WeekParts ==
    { <<"0">>,
      <<"0", "1">>,
      <<"1">>,
      <<"9">>,
      <<"5", "2">>,
      <<"5", "3">>,
      <<"6", "0">> }
WeekdayParts ==
    { <<"0">>,
      <<"1">>,
      <<"4">>,
      <<"7">>,
      <<"8">>,
      <<"1", "2">> }
OtherAnchors ==
    { <<"D", "e", "c", "e", "m", "b", "e", "r">>,
      <<"d", "e", "c">>,
      <<"j", "a", "n">>,
      <<"J", "a", "n">>,
      <<"M", "A", "Y">>,
      <<"m", "a", "y">>,
      <<"S", "e", "p", "t">>,
      <<"s", "e", "p">>,
      <<"j", "u", "l", "i">>,
      <<"J", "u", "l", "y", " ", "5">>,
      <<"J", "u", "l", "y", "-", "5">>,
      <<"j", "a", "n", " ", "2", "0">>,
      <<"j", "a", "n", "-", "2", "0">>,
      <<"w", "1", "2">>,
      <<"W">>,
      <<>>,
      <<"1", "2", "3">>,
      <<"1", "-", "2", "-", "3">>,
      <<"-", "5">>,
      <<"5", "-">>,
      <<"W", "0", "1", "-">>,
      <<"1", "2", "-", "3", "1", " ">> }

\* the anchors given to the anchor setter
SetterInputs ==
    { [type |-> "str", chars |-> chars] : chars \in MonthParts \cup OtherAnchors }
    \cup { [type |-> "int", chars |-> <<"1", "0">>] }

\* the anchors given to Calendar(anchor=...)
AnchorInputs ==
    { [type |-> "str", chars |-> chars] :
          chars \in MonthParts \cup OtherAnchors
                    \cup { m \o <<"-">> \o d : m \in MonthParts, d \in DayParts }
                    \cup { <<"W">> \o w : w \in WeekParts }
                    \cup { <<"W">> \o w \o <<"-">> \o d :
                               w \in WeekParts, d \in WeekdayParts } }
    \cup { [type |-> "int", chars |-> <<"1", "0">>],
            [type |-> "tuple", chars |-> <<"(", "1", ",", " ", "2", ")">>] }

\* the state after Calendar(anchor=anchor): the calendar, or the error and no
\* calendar (no anchor)
InitAnchor ==
    \E anchor \in AnchorInputs : \E out \in {_parse_anchor(anchor)} :
        /\ call = [op |-> "Calendar", value |-> anchor]
        /\ error = out.error
        /\ _anchor = out.anchor_str
        /\ _anchor_fmt = out.fmt
        /\ returned = Null
        /\ warned = {}
        /\ _allow_overlap = FALSE
        /\ targets = <<>>
        /\ precursors = <<>>
        /\ _mapping = "None"
        /\ _first_year = Null
        /\ _last_year = Null
        /\ _first_timestamp = Null
        /\ _last_timestamp = Null

\* Calendar.anchor = value, on a calendar that exists; value is one of the
\* inputs or the anchor the calendar holds
anchor_setter(value) ==
    \E out \in {_parse_anchor(value)} :
        /\ _anchor_fmt # "None"
        /\ call' = [op |-> "anchor", value |-> value,
                    _anchor |-> _anchor, _anchor_fmt |-> _anchor_fmt]
        /\ error' = out.error
        /\ _anchor' = IF out.error = "none" THEN out.anchor_str ELSE _anchor
        /\ _anchor_fmt' = IF out.error = "none" THEN out.fmt ELSE _anchor_fmt
        /\ returned' = Null
        /\ UNCHANGED <<_allow_overlap, targets, precursors, _mapping,
                       _first_year, _last_year, _first_timestamp,
                       _last_timestamp, warned>>

\* the years _get_anchor is called with: a leap year and the year after it
GetAnchorYears == 2020..(2019 + YearSpan)

\* Calendar._get_anchor(year), on a calendar that exists
get_anchor(year) ==
    /\ _anchor_fmt # "None"
    /\ call' = [op |-> "_get_anchor", year |-> year]
    /\ error' = to_datetime_error(_anchor, _anchor_fmt)
    /\ returned' = IF to_datetime_error(_anchor, _anchor_fmt) = "none"
                   THEN _get_anchor(Self, year)
                   ELSE Null
    /\ UNCHANGED <<_anchor, _anchor_fmt, _allow_overlap, targets, precursors,
                   _mapping, _first_year, _last_year, _first_timestamp,
                   _last_timestamp, warned>>

NextAnchor ==
    \/ \E value \in SetterInputs \cup {[type |-> "str", chars |-> _anchor]} :
           anchor_setter(value)
    \/ \E year \in GetAnchorYears : get_anchor(year)

SpecAnchor == InitAnchor /\ [][NextAnchor]_vars

(***************************************************************************)
(* calendar_shorthands: daily_calendar, weekly_calendar, monthly_calendar. *)
(***************************************************************************)
\* re.fullmatch(r"\d*d", length), with the unit of the builder
fullmatch_length(length, unit) == length.unit = unit /\ length.n >= 0

\* int(periods_per_year): pd.Timedelta("365days") / pd.to_timedelta(length)
\* for days and weeks, 12 / int(length.replace("M", "")) for months
periods_per_year(length) ==
    IF length.unit = "d" THEN 365 \div length.n
    ELSE IF length.unit = "W" THEN 365 \div (7 * length.n)
    ELSE 12 \div length.n

\* n_intervals of a builder
n_intervals(length, n_targets_, n_precursors_) ==
    IF n_precursors_ > 0 THEN n_precursors_ + n_targets_
    ELSE periods_per_year(length)

\* the builder with every one of the n_intervals added as a precursor
built_unreduced(anchor, length, n_targets_, n_intervals_, allow_overlap) ==
    [error |-> "none",
     _anchor |-> anchor._anchor, _anchor_fmt |-> anchor._anchor_fmt,
     _allow_overlap |-> allow_overlap,
     targets |-> Repeat(Interval("target", length, Freq(0, "d")), n_targets_),
     precursors |->
         IF n_intervals_ > 0
         THEN Repeat(Interval("precursor", length, Freq(0, "d")), n_intervals_)
         ELSE <<>>]

\* a builder from n_intervals on: n_precursors = n_intervals - n_targets,
\* Calendar(anchor, allow_overlap), add_intervals for the targets and, if
\* n_precursors > 0, for the precursors
built(anchor, length, n_targets_, n_intervals_, allow_overlap) ==
    [error |-> "none",
     _anchor |-> anchor._anchor, _anchor_fmt |-> anchor._anchor_fmt,
     _allow_overlap |-> allow_overlap,
     targets |-> Repeat(Interval("target", length, Freq(0, "d")), n_targets_),
     precursors |->
         IF n_intervals_ - n_targets_ > 0
         THEN Repeat(Interval("precursor", length, Freq(0, "d")),
                     n_intervals_ - n_targets_)
         ELSE <<>>]

\* the outcome of daily_calendar (unit "d"), weekly_calendar ("W") or
\* monthly_calendar ("M"): the error raised, or the calendar
shorthand_calendar(unit, anchor, length, n_targets_, n_precursors_, overlap) ==
    IF ~fullmatch_length(length, unit) \/ length.n = 0 \/ n_targets_ <= 0
    THEN [error |-> "ValueError", _anchor |-> <<>>, _anchor_fmt |-> "None",
          _allow_overlap |-> overlap, targets |-> <<>>,
          precursors |-> <<>>]
    ELSE built(anchor, length, n_targets_,
               n_intervals(length, n_targets_, n_precursors_), overlap)

\* the lengths, the numbers of targets and the numbers of precursors the
\* builders are called with
ShorthandLengths ==
    { Freq(30, "d"), Freq(100, "d"), Freq(365, "d"), Freq(400, "d"),
      Freq(10, "W"), Freq(26, "W"), Freq(52, "W"), Freq(53, "W"),
      Freq(3, "M"), Freq(5, "M"), Freq(12, "M"), Freq(13, "M") }
ShorthandTargets == 0..MaxIntervals
ShorthandPrecursors == 0..MaxIntervals

\* the state after daily_calendar, weekly_calendar or monthly_calendar: the
\* calendar, or the error and no calendar
InitShorthand ==
    \E unit \in {"d", "W", "M"}, anchor \in Anchors, length \in ShorthandLengths,
       n_targets_ \in ShorthandTargets, n_precursors_ \in ShorthandPrecursors,
       allow_overlap \in BOOLEAN :
        \E out \in {shorthand_calendar(unit, anchor, length, n_targets_,
                                       n_precursors_, allow_overlap)} :
            /\ call = [op |-> "shorthand", unit |-> unit, length |-> length,
                       n_targets |-> n_targets_,
                       n_precursors |-> n_precursors_]
            /\ error = out.error
            /\ _anchor = out._anchor
            /\ _anchor_fmt = out._anchor_fmt
            /\ _allow_overlap = out._allow_overlap
            /\ targets = out.targets
            /\ precursors = out.precursors
            /\ _mapping = "None"
            /\ _first_year = Null
            /\ _last_year = Null
            /\ _first_timestamp = Null
            /\ _last_timestamp = Null
            /\ returned = Null
            /\ warned = {}

\* the calls on a calendar that a builder returned
NextShorthand ==
    /\ _anchor_fmt # "None"
    /\ \/ get_intervals
       \/ \E start \in ShiftYears, end \in ShiftYears : map_years(start, end)

SpecShorthand == InitShorthand /\ [][NextShorthand]_vars

(***************************************************************************)
(* Calendar.map_to_data(input_data, safe): coverage at the edges of the    *)
(* data, by mode.  calendar.py holds map_to_data(input_data) only; the     *)
(* mode is the one that tests/test_calendar.py calls, and its rules are    *)
(* modelled from the specification.  map_to_data sets the year range that  *)
(* the data cover and get_intervals refuses an empty range.                *)
(***************************************************************************)
\* the sampling period taken to be 0 whatever the time axis
sampling_period_ignored(input_data) == 0

\* the sampling period of the data in days: the step of the time axis when
\* infer_freq finds a frequency, 0 when it finds none
sampling_period(input_data) ==
    IF infer_freq(input_data).error = "none" /\ infer_freq(input_data).freq # <<>>
    THEN time_steps(input_data)[1]
    ELSE 0

\* whether the data reach anchor year `year` at their right edge
covers_right(self, year, input_data, safe) ==
    IF safe
    THEN iloc_first(_map_year(self, year)).right
             <= index_max(input_data) + sampling_period(input_data)
    ELSE iloc_first(_map_year(self, year)).left <= index_max(input_data)

\* whether the data reach anchor year `year` at their left edge
covers_left(self, year, input_data, safe) ==
    IF safe
    THEN iloc_last(_map_year(self, year)).left
             >= index_min(input_data) - sampling_period(input_data)
    ELSE iloc_last(_map_year(self, year)).right > index_min(input_data)

\* the last anchor year that the data reach, counting down from max_year
RECURSIVE last_year_covered(_, _, _, _)
last_year_covered(self, max_year, input_data, safe) ==
    IF covers_right(self, max_year, input_data, safe)
    THEN max_year
    ELSE last_year_covered(self, max_year - 1, input_data, safe)

\* the first anchor year that the data reach, counting up from min_year
RECURSIVE first_year_covered(_, _, _, _)
first_year_covered(self, min_year, input_data, safe) ==
    IF covers_left(self, min_year, input_data, safe)
    THEN min_year
    ELSE first_year_covered(self, min_year + 1, input_data, safe)

\* Calendar.map_to_data(input_data, safe=safe) on a calendar with intervals
map_to_data_safe(input_data, safe) ==
    /\ call' = [op |-> "map_to_data", input_data |-> input_data, safe |-> safe]
    /\ warned' = {}
    /\ UNCHANGED <<_anchor, _anchor_fmt, _allow_overlap, targets, precursors>>
    /\ IF check_timeseries(input_data) # "none"
       THEN /\ error' = check_timeseries(input_data)
            /\ returned' = Null
            /\ UNCHANGED <<_mapping, _first_year, _last_year, _first_timestamp,
                           _last_timestamp>>
       ELSE /\ error' = "none"
            /\ returned' = "self"
            /\ _first_timestamp' = index_min(input_data)
            /\ _last_timestamp' = index_max(input_data)
            /\ _mapping' = "data"
            /\ _first_year' =
                   first_year_covered(Self, Fields(index_min(input_data)).year,
                                      input_data, safe)
            /\ _last_year' =
                   last_year_covered(Self, Fields(index_max(input_data)).year,
                                     input_data, safe)

\* Calendar.get_intervals() on a calendar whose year range map_years or
\* map_to_data(input_data, safe) has set
get_intervals_safe ==
    \E out \in {table_of_year_range(
                    Self, year_range_check(Self, _first_year, _last_year))} :
        /\ call' = [op |-> "get_intervals"]
        /\ warned' = {}
        /\ error' = out.error
        /\ returned' = out.returned
        /\ UNCHANGED <<_anchor, _anchor_fmt, _allow_overlap, targets, precursors,
                       _mapping, _first_year, _last_year, _first_timestamp,
                       _last_timestamp>>

\* test_map_to_data_rightbounds: the last 27 samples of
\* pd.date_range("2020-01-31", "2021-01-21", freq="2d"), which start on
\* 2020-11-30, without sample 2 when the frequency is not to be inferred, and
\* without the last n_dropped_indices samples
rightbounds_data(n_dropped_indices, inferable) ==
    [DateRange(Timestamp(2020, 11, 30), 27, 2) EXCEPT
        !.dropped = (IF inferable THEN {} ELSE {2})
                        \cup ((27 - n_dropped_indices)..26)]

\* test_map_to_data_leftbounds: pd.date_range("2020-12-20", "2021-01-21",
\* freq="2d"), without its third last sample when the frequency is not to be
\* inferred, and without its first n_dropped_indices samples
leftbounds_data(n_dropped_indices, inferable) ==
    [DateRange(Timestamp(2020, 12, 20), 17, 2) EXCEPT
        !.dropped = (IF inferable THEN {} ELSE {14})
                        \cup (0..(n_dropped_indices - 1))]

\* one line of a test matrix
Case(safe_mode, n_dropped_indices, inferable, valid) ==
    [safe_mode |-> safe_mode, n_dropped_indices |-> n_dropped_indices,
     inferable |-> inferable, valid |-> valid]

\* the parameters of test_map_to_data_rightbounds
rightbounds_matrix ==
    { Case(TRUE, 0, TRUE, TRUE), Case(TRUE, 0, FALSE, TRUE),
      Case(TRUE, 1, TRUE, TRUE), Case(TRUE, 1, FALSE, FALSE),
      Case(TRUE, 2, TRUE, FALSE), Case(TRUE, 2, FALSE, FALSE),
      Case(FALSE, 0, TRUE, TRUE), Case(FALSE, 0, FALSE, TRUE),
      Case(FALSE, 1, TRUE, TRUE), Case(FALSE, 1, FALSE, TRUE),
      Case(FALSE, 10, TRUE, TRUE), Case(FALSE, 10, FALSE, TRUE),
      Case(FALSE, 11, TRUE, FALSE), Case(FALSE, 11, FALSE, FALSE) }

\* the parameters of test_map_to_data_leftbounds
leftbounds_matrix ==
    { Case(TRUE, 0, TRUE, TRUE), Case(TRUE, 0, FALSE, TRUE),
      Case(TRUE, 1, TRUE, TRUE), Case(TRUE, 1, FALSE, FALSE),
      Case(TRUE, 2, TRUE, FALSE), Case(TRUE, 2, FALSE, FALSE),
      Case(FALSE, 0, TRUE, TRUE), Case(FALSE, 0, FALSE, TRUE),
      Case(FALSE, 1, TRUE, TRUE), Case(FALSE, 1, FALSE, TRUE),
      Case(FALSE, 5, TRUE, TRUE), Case(FALSE, 5, FALSE, TRUE),
      Case(FALSE, 6, TRUE, FALSE), Case(FALSE, 6, FALSE, FALSE) }

\* the data map_to_data(input_data, safe) is called with
SafeData ==
    { rightbounds_data(n, inferable) : n \in 0..11, inferable \in BOOLEAN }
        \cup { leftbounds_data(n, inferable) : n \in 0..6, inferable \in BOOLEAN }

\* the targets and precursors of the calendars of days at anchor 12-31: the
\* dummy_calendar of the tests, and the same span in halves
SafeIntervals ==
    { [targets |-> <<Interval("target", Freq(20, "d"), Freq(0, "d"))>>,
       precursors |-> <<Interval("precursor", Freq(10, "d"), Freq(0, "d"))>>],
      [targets |-> Repeat(Interval("target", Freq(10, "d"), Freq(0, "d")), 2),
       precursors |->
           Repeat(Interval("precursor", Freq(5, "d"), Freq(0, "d")), 2)] }

\* dummy_calendar: Calendar(anchor="12-31") after add_intervals and
\* map_years(2021, 2021)
InitSafe ==
    /\ _anchor = <<"1", "2", "-", "3", "1">>
    /\ _anchor_fmt = "%m-%d"
    /\ _allow_overlap = FALSE
    /\ \E c \in SafeIntervals : targets = c.targets /\ precursors = c.precursors
    /\ _mapping = "years"
    /\ _first_year = 2021
    /\ _last_year = 2021
    /\ _first_timestamp = Null
    /\ _last_timestamp = Null
    /\ call = [op |-> "map_years"]
    /\ error = "none"
    /\ returned = "self"
    /\ warned = {}

NextSafe ==
    \/ get_intervals_safe
    \/ \E input_data \in SafeData, safe \in BOOLEAN :
           map_to_data_safe(input_data, safe)

SpecSafe == InitSafe /\ [][NextSafe]_vars

(***************************************************************************)
(* Calendar._get_skip_nyears on calendars that hold their intervals: the   *)
(* calendars of one or two blocks per role, and those of test_allow_overlap*)
(* and of 72 and 73 precursors of five days.                               *)
(***************************************************************************)
\* the sequences of at most two of the blocks of set args, with role
UpToTwo(role, args) ==
    {<<>>}
        \cup { <<Interval(role, a.length, a.gap)>> : a \in args }
        \cup { <<Interval(role, a.length, a.gap), Interval(role, b.length, b.gap)>> :
                   a \in args, b \in args }

SkipTargets ==
    UpToTwo("target", TargetArgs)
        \cup { <<Interval("target", Freq(30, "d"), Freq(0, "d"))>>,
               <<Interval("target", Freq(5, "d"), Freq(0, "d"))>> }
SkipPrecursors ==
    UpToTwo("precursor", PrecursorArgs)
        \cup { Repeat(Interval("precursor", Freq(5, "d"), Freq(0, "d")), 72),
               Repeat(Interval("precursor", Freq(5, "d"), Freq(0, "d")), 73) }

\* the calendar after Calendar(anchor, allow_overlap) and add_intervals
InitSkip ==
    /\ \E a \in Anchors : _anchor = a._anchor /\ _anchor_fmt = a._anchor_fmt
    /\ _allow_overlap \in BOOLEAN
    /\ targets \in SkipTargets
    /\ precursors \in SkipPrecursors
    /\ _mapping = "None"
    /\ _first_year = Null
    /\ _last_year = Null
    /\ _first_timestamp = Null
    /\ _last_timestamp = Null
    /\ call = [op |-> "add_intervals"]
    /\ error = "none"
    /\ returned = Null
    /\ warned = {}

\* Calendar._get_skip_nyears()
get_skip_nyears ==
    /\ call' = [op |-> "_get_skip_nyears"]
    /\ warned' = {}
    /\ error' = "none"
    /\ returned' = _get_skip_nyears(Self)
    /\ UNCHANGED <<_anchor, _anchor_fmt, _allow_overlap, targets, precursors,
                   _mapping, _first_year, _last_year, _first_timestamp,
                   _last_timestamp>>

\* the calls on the calendar; tables are built for the calendars of at most
\* MaxIntervals precursors
NextSkip ==
    \/ get_skip_nyears
    \/ get_intervals
    \/ Len(precursors) <= MaxIntervals /\ map_years(2020, 2022)

SpecSkip == InitSkip /\ [][NextSkip]_vars

(***************************************************************************)
(* Properties of the calendar engine.                                      *)
(***************************************************************************)
\* get_intervals() has just returned a table
GotIntervals == call.op = "get_intervals" /\ error = "none"

\* the cell of row r in the column labelled label
Cell(tbl, r, label) ==
    tbl.values[r][CHOOSE c \in 1..Len(tbl.columns) : tbl.columns[c] = label]

\* two half-open intervals share a moment
Overlap(a, b) == a.left < b.right /\ b.left < a.right

AnchorIs(chars) == _anchor = chars

\* C1: with allow_overlap=False, no interval of an anchor year overlaps an
\* interval of the anchor year in the adjacent row of get_intervals()
C1_AdjacentYearsDisjoint ==
    (GotIntervals /\ ~_allow_overlap) =>
        \A r \in 1..(Len(returned.index) - 1) :
            \A c1, c2 \in 1..Len(returned.columns) :
                ~Overlap(returned.values[r + 1][c1], returned.values[r][c2])

\* the left bound that the claim gives target k of anchor year row r
C2_prev_right(tbl, r, k) ==
    IF k = 1 THEN _get_anchor(Self, tbl.index[r]) ELSE Cell(tbl, r, k - 1).right
\* the right bound that the claim gives precursor -k of anchor year row r
C2_prev_left(tbl, r, k) ==
    IF k = 1 THEN _get_anchor(Self, tbl.index[r]) ELSE Cell(tbl, r, 0 - (k - 1)).left

\* an offset of n days moves a timestamp by exactly n days
C2_shift(ts, freq, sign) ==
    IF freq.unit = "d" THEN ts + sign * freq.n
    ELSE IF freq.unit = "W" THEN ts + sign * 7 * freq.n
    ELSE add_months(ts, sign * freq.n)

C3_labels(n, m) == [k \in 1..(n + m) |-> IF k <= n THEN k - n - 1 ELSE k - n]

\* C3: get_intervals() returns one row for each anchor year
\* last_year - j*(skip+1) >= first_year, in descending order, and the columns
\* -n..-1, 1..m in ascending order; column -k holds the k-th precursor counted
\* back from the anchor and column k the k-th target counted forward
C3_RowsAndColumns ==
    GotIntervals =>
        LET skip == _get_skip_nyears(Self)
            nrows == (_last_year - _first_year) \div (skip + 1) + 1
        IN  /\ _first_year <= _last_year
            /\ Len(returned.index) = nrows
            /\ Len(returned.values) = nrows
            /\ \A j \in 1..nrows :
                   returned.index[j] = _last_year - (j - 1) * (skip + 1)
            /\ \A j \in 1..(nrows - 1) :
                   returned.index[j] > returned.index[j + 1]
            /\ returned.columns = C3_labels(Len(precursors), Len(targets))
            /\ \A j \in 1..nrows :
                   LET anchor == _get_anchor(Self, returned.index[j])
                   IN  /\ Len(returned.values[j]) = Len(returned.columns)
                       /\ \A k \in 1..Len(targets) :
                              Cell(returned, j, k) =
                                  build_left_to_right(anchor, targets)[k]
                       /\ \A k \in 1..Len(precursors) :
                              Cell(returned, j, 0 - k) =
                                  build_right_to_left(anchor, precursors)[k]

\* a table of two rows with a skipped year between them, two precursors and a
\* target
C3_Witness ==
    /\ GotIntervals
    /\ Len(returned.index) = 2
    /\ returned.index[1] - returned.index[2] = 2
    /\ returned.columns = <<-2, -1, 1>>

\* the latest right bound of row r of the table
RightmostBound(tbl, r) ==
    CHOOSE x \in {tbl.values[r][c].right : c \in 1..Len(tbl.columns)} :
        \A c \in 1..Len(tbl.columns) : tbl.values[r][c].right <= x

\* the rightmost bound of the calendar of anchor year y
RightmostOfYear(y) ==
    LET ivs == _map_year(Self, y)
    IN  CHOOSE x \in {ivs[c].right : c \in 1..Len(ivs)} :
            \A c \in 1..Len(ivs) : ivs[c].right <= x

\* C4: after map_to_data, every anchor year of get_intervals() ends at or
\* before the last timestamp of the data, and the largest realized year is the
\* largest year that does
C4_RealizedYearsEndWithinData ==
    (GotIntervals /\ _mapping = "data") =>
        /\ \A r \in 1..Len(returned.index) :
               RightmostBound(returned, r) <= _last_timestamp
        /\ \A y \in (returned.index[1] + 1)..Fields(_last_timestamp).year :
               RightmostOfYear(y) > _last_timestamp

\* C5: after map_to_data, no anchor year of get_intervals() has an interval
\* that starts before the first timestamp of the data
C5_RealizedYearsStartWithinData ==
    (GotIntervals /\ _mapping = "data") =>
        \A r \in 1..Len(returned.index) :
            \A c \in 1..Len(returned.columns) :
                returned.values[r][c].left >= _first_timestamp

(***************************************************************************)
(* Properties of resample.                                                 *)
(***************************************************************************)
\* resample has just returned a result
Resampled == call.op = "resample" /\ error = "none"

\* the columns of a resampled DataFrame that hold resampled data
DataColumns(df) ==
    {df.columns[i] : i \in 1..Len(df.columns)}
        \ {"anchor_year", "i_interval", "interval", "is_target"}

\* the samples (positions on the time axis) of data whose timestamp t
\* satisfies left <= t < right
SamplesIn(data, interval) ==
    {j \in 1..n_samples(data) :
        /\ interval.left <= time_values(data)[j]
        /\ time_values(data)[j] < interval.right}

\* the sum of the values of the samples S
RECURSIVE Total(_, _)
Total(data, S) ==
    IF S = {} THEN 0
    ELSE LET j == CHOOSE i \in S : TRUE
         IN  values_of(data)[j].num + Total(data, S \ {j})

\* x is the arithmetic mean of the samples S, a set that is not empty
IsMeanOf(x, data, S) ==
    /\ x.den > 0
    /\ ~x.root
    /\ x.num * Cardinality(S) = x.den * Total(data, S)

\* the names of the columns of tabular input data: those of a DataFrame, the
\* name of a Series ("data" when it has none)
InputColumns(data) ==
    IF data.type = "Series"
    THEN {IF data.name = "None" THEN "data" ELSE data.name}
    ELSE {data.columns[i] : i \in 1..Len(data.columns)}

\* row k of the resampled DataFrame is a row of the calendar's table: its
\* interval is that of its interval number in an anchor year, which is the
\* anchor year of the row unless the data have a column of that name
RowOfCalendar(df, k, tbl, names) ==
    \E r \in 1..Len(tbl.index) :
        /\ "anchor_year" \notin names => tbl.index[r] = df.data["anchor_year"][k]
        /\ df.data["i_interval"][k] \in {tbl.columns[c] : c \in 1..Len(tbl.columns)}
        /\ Cell(tbl, r, df.data["i_interval"][k]) = df.data["interval"][k]

\* C6: for tabular input and how="mean", every (anchor_year, i_interval) of the
\* calendar has one row in the result, and every data column holds in a row
\* whose interval contains samples the arithmetic mean of exactly the values
\* with left <= t < right, which for a constant series is the constant
C6_MeanOfSamplesInInterval ==
    (Resampled /\ call.how = "mean" /\ is_pandas(call.input_data)) =>
        /\ n_rows(returned) =
               Len(get_intervals_of(Self).returned.index)
                   * (Len(targets) + Len(precursors))
        /\ \A k, l \in 1..n_rows(returned) :
               (/\ returned.data["interval"][k] = returned.data["interval"][l]
                /\ returned.data["i_interval"][k] = returned.data["i_interval"][l])
                   => k = l
        /\ \A k \in 1..n_rows(returned) :
               /\ RowOfCalendar(returned, k, get_intervals_of(Self).returned,
                                InputColumns(call.input_data))
               /\ \A c \in InputColumns(call.input_data) :
                      SamplesIn(call.input_data, returned.data["interval"][k]) # {}
                          => /\ IsMeanOf(returned.data[c][k], call.input_data,
                                         SamplesIn(call.input_data,
                                                   returned.data["interval"][k]))
                             /\ call.input_data.fill.kind = "full"
                                    => returned.data[c][k]
                                           = Float(call.input_data.fill.value)

\* a mean of tabular data in which one sample lies in two intervals and
\* another in none
C6_Witness ==
    /\ Resampled /\ call.how = "mean" /\ is_pandas(call.input_data)
    /\ DataColumns(returned) # {}
    /\ \E k, l \in 1..n_rows(returned) :
           /\ k # l
           /\ SamplesIn(call.input_data, returned.data["interval"][k])
                  \cap SamplesIn(call.input_data, returned.data["interval"][l])
                  # {}
    /\ \E j \in 1..n_samples(call.input_data) :
           \A k \in 1..n_rows(returned) :
               j \notin SamplesIn(call.input_data, returned.data["interval"][k])

\* C7: in every result of resample, tabular or gridded, is_target is True
\* exactly where i_interval > 0
C7_TargetsMarked ==
    Resampled =>
        IF returned.type = "DataFrame"
        THEN \A k \in 1..n_rows(returned) :
                 returned.data["is_target"][k]
                     = (returned.data["i_interval"][k] > 0)
        ELSE \A i \in 1..Len(returned.i_interval) :
                 returned.is_target[i] = (returned.i_interval[i] > 0)

\* a gridded result of a calendar with two targets and a precursor
C7_Witness ==
    /\ Resampled
    /\ returned.type \in {"DataArray", "Dataset"}
    /\ Len(targets) >= 2
    /\ Len(precursors) >= 1
    /\ \E i \in 1..Len(returned.i_interval) : returned.is_target[i]
    /\ \E i \in 1..Len(returned.i_interval) : ~returned.is_target[i]

\* the length of an interval in days, a month counted as 30 days
DaysOf(length) ==
    (IF length.n < 0 THEN 0 - length.n ELSE length.n)
        * (IF length.unit = "M" THEN 30 ELSE IF length.unit = "W" THEN 7 ELSE 1)

\* C of the calendar: its smallest interval length
C_calendar ==
    CHOOSE c \in {DaysOf((targets \o precursors)[i].length) :
                      i \in 1..(Len(targets) + Len(precursors))} :
        \A i \in 1..(Len(targets) + Len(precursors)) :
            c <= DaysOf((targets \o precursors)[i].length)

\* D of the data: the smallest difference between consecutive timestamps,
\* which is the period of a regular time axis
D_data(data) ==
    CHOOSE d \in {time_values(data)[j + 1] - time_values(data)[j] :
                      j \in 1..(n_samples(data) - 1)} :
        \A j \in 1..(n_samples(data) - 1) :
            d <= time_values(data)[j + 1] - time_values(data)[j]

\* resample has been called with a mapped calendar that has intervals, a
\* supported reduction and data with a time axis: it has compared C and D
FrequencyChecked ==
    /\ call.op = "resample"
    /\ _mapping # "None"
    /\ \E i \in 1..Len(VALID_METHODS) : VALID_METHODS[i] = call.how
    /\ call.input_data.datetime
    /\ n_samples(call.input_data) >= 3
    /\ Len(targets) + Len(precursors) > 0

\* the value is resampled data
IsResult(value) == value.type \in {"DataFrame", "DataArray", "Dataset"}

AliasingWarned ==
    "UserWarning: data frequency very close to the calendar's" \in warned

\* the intervals of the calendar mapped to years that hold no sample of the
\* data resample was called with
EmptyBins ==
    {k \in 1..n_rows(returned) :
        SamplesIn(call.input_data, returned.data["interval"][k]) = {}}

\* the calendar mapped to years has a realized interval without a sample
HasEmptyBin ==
    \E r \in 1..Len(get_intervals_of(Self).returned.index) :
        \E c \in 1..(Len(targets) + Len(precursors)) :
            SamplesIn(call.input_data,
                      get_intervals_of(Self).returned.values[r][c]) = {}

\* C8: for each of the 15 reductions, tabular data and a calendar mapped to
\* years, resample returns the complete result, in which an interval that
\* holds no timestamp of the data has the value NaN
C8_EmptyBinsAreNaN ==
    (/\ FrequencyChecked
     /\ _mapping = "years"
     /\ is_pandas(call.input_data)
     /\ C_calendar >= D_data(call.input_data)
     /\ HasEmptyBin)
        => /\ error = "none"
           /\ \A k \in EmptyBins : \A c \in DataColumns(returned) :
                  isnan(returned.data[c][k])

\* C9: for tabular data and a calendar mapped to years, resample fails and
\* returns nothing if C < D, and warns and returns the result if D <= C < 2*D
C9_FailsBelowWarnsBelowTwice ==
    (FrequencyChecked /\ _mapping = "years" /\ is_pandas(call.input_data)) =>
        /\ C_calendar < D_data(call.input_data)
               => error # "none" /\ returned = Null
        /\ (/\ D_data(call.input_data) <= C_calendar
            /\ C_calendar < 2 * D_data(call.input_data))
               => AliasingWarned /\ error = "none" /\ IsResult(returned)

\* C10 as stated: when C is exactly 2*D, resample emits the aliasing warning
\* and returns the resampled result
C10_WarnsAtTwice ==
    (FrequencyChecked /\ C_calendar = 2 * D_data(call.input_data)) =>
        AliasingWarned /\ error = "none" /\ IsResult(returned)

\* C10: resample emits the aliasing warning exactly when D <= C < 2*D; when C
\* is exactly 2*D it emits none and the comparison of C and D raises no error
C10_WarnsBelowTwiceOnly ==
    FrequencyChecked =>
        /\ AliasingWarned <=>
               (/\ D_data(call.input_data) <= C_calendar
                /\ C_calendar < 2 * D_data(call.input_data))
        /\ C_calendar = 2 * D_data(call.input_data) =>
               error # "ValueError: data of a lower time resolution than the calendar"

\* a result returned without the aliasing warning for C exactly 2*D
C10_Witness ==
    /\ FrequencyChecked
    /\ C_calendar = 2 * D_data(call.input_data)
    /\ error = "none"
    /\ IsResult(returned)
    /\ ~AliasingWarned

\* the calendar mapped to years has a realized interval that holds at most
\* one sample of the data resample was called with
HasSparseBin ==
    \E r \in 1..Len(get_intervals_of(Self).returned.index) :
        \E c \in 1..(Len(targets) + Len(precursors)) :
            Cardinality(SamplesIn(call.input_data,
                                  get_intervals_of(Self).returned.values[r][c]))
                <= 1

\* C11: for tabular data, how="mean" and a calendar mapped to years, resample
\* emits a warning whenever an interval received no sample or exactly one, and
\* returns the complete result with NaN in the intervals without samples
C11_WarnsOfSparseBins ==
    (/\ FrequencyChecked
     /\ _mapping = "years"
     /\ is_pandas(call.input_data)
     /\ call.how = "mean"
     /\ C_calendar >= D_data(call.input_data)
     /\ HasSparseBin)
        => /\ error = "none"
           /\ warned # {}
           /\ \A k \in EmptyBins : \A c \in DataColumns(returned) :
                  isnan(returned.data[c][k])

\* the data define a name that resample writes: anchor_year, i_interval or
\* is_target, and for gridded data left_bound or right_bound as well
DefinesReservedName(data) ==
    \E name \in ({data.columns[i] : i \in 1..Len(data.columns)}
                     \cup {data.name}) :
        \/ name \in {"anchor_year", "i_interval", "is_target"}
        \/ /\ data.type \in {"DataArray", "Dataset"}
           /\ name \in {"left_bound", "right_bound"}

\* C12: resample called with a mapped calendar, a supported reduction and data
\* with a time axis that define a reserved name raises an error
C12_ReservedNamesRefused ==
    (/\ call.op = "resample"
     /\ _mapping # "None"
     /\ \E i \in 1..Len(VALID_METHODS) : VALID_METHODS[i] = call.how
     /\ call.input_data.datetime
     /\ DefinesReservedName(call.input_data))
        => error # "none"

(***************************************************************************)
(* Properties of calendar_shifter and staggered_calendar.                  *)
(***************************************************************************)
\* the days, weeks and months of a gap or shift
Units(value) == DateOffset(time_dict(value))

\* the units of base + k * shift
Shifted(base, shift, k) ==
    [days |-> Units(base).days + k * Units(shift).days,
     weeks |-> Units(base).weeks + k * Units(shift).weeks,
     months |-> Units(base).months + k * Units(shift).months]

HasTargetAndPrecursor(calendar) ==
    Len(calendar.targets) >= 1 /\ Len(calendar.precursors) >= 1

\* C13: staggered_calendar(cal, shift, n) with an integer n >= 1 returns n+1
\* calendars, the k-th with first target gap = original + k*shift and first
\* precursor gap = original - k*shift, element 0 the original; a non-integer
\* n or n <= 0 raises an error and returns no list
C13_StaggeredByMultiplesOfShift ==
    (call.op = "staggered_calendar" /\ HasTargetAndPrecursor(call.calendar)) =>
        IF call.n_shifts.type = "int" /\ call.n_shifts.value >= 1
        THEN /\ error = "none"
             /\ Len(returned) = call.n_shifts.value + 1
             /\ returned[1] = call.calendar
             /\ \A k \in 0..call.n_shifts.value :
                    /\ Units(returned[k + 1].targets[1].gap) =
                           Shifted(call.calendar.targets[1].gap, call.shift, k)
                    /\ Units(returned[k + 1].precursors[1].gap) =
                           Shifted(call.calendar.precursors[1].gap, call.shift,
                                   0 - k)
        ELSE error # "none"

\* C14: calendar_shifter(cal, shift) returns a new calendar whose first target
\* gap is the old gap + shift and whose first precursor gap is the old gap -
\* shift, per unit, a missing unit counting as 0; the anchor, allow_overlap,
\* mapping, every length and every other gap are those of cal
C14_ShiftsFirstTargetAndPrecursor ==
    (call.op = "calendar_shifter" /\ HasTargetAndPrecursor(call.calendar)) =>
        /\ error = "none"
        /\ Units(returned.targets[1].gap) =
               Shifted(call.calendar.targets[1].gap, call.shift, 1)
        /\ Units(returned.precursors[1].gap) =
               Shifted(call.calendar.precursors[1].gap, call.shift, 0 - 1)
        /\ returned =
               [call.calendar EXCEPT
                    !.targets[1].gap = returned.targets[1].gap,
                    !.precursors[1].gap = returned.precursors[1].gap]

\* a mapped calendar with two targets, the first with a gap of one week, has
\* been shifted by one week and two months
C14_Witness ==
    /\ call.op = "calendar_shifter"
    /\ error = "none"
    /\ call.shift = [weeks |-> 1, months |-> 2]
    /\ call.calendar._mapping = "years"
    /\ Len(call.calendar.targets) = 2
    /\ call.calendar.targets[1].gap = Freq(1, "W")
    /\ Units(returned.targets[1].gap) = [days |-> 0, weeks |-> 2, months |-> 2]
    /\ Units(returned.precursors[1].gap).weeks = 0 - 1

\* the call shifted the calendar that a call with shift X returned, by the
\* component-wise negation of X
ShiftedBack ==
    /\ call.op = "calendar_shifter"
    /\ call.earlier # <<>>
    /\ Units(call.shift) = negated(Units(call.earlier[1].shift))

\* C15: for a calendar with a target and a precursor, calendar_shifter with X
\* and then with the negation of X gives a calendar whose first target gap and
\* first precursor gap equal, per unit, those of the original calendar
C15_ShiftRoundTrip ==
    ShiftedBack =>
        /\ error = "none"
        /\ Units(returned.targets[1].gap) =
               Units(call.earlier[1].calendar.targets[1].gap)
        /\ Units(returned.precursors[1].gap) =
               Units(call.earlier[1].calendar.precursors[1].gap)

\* a calendar whose first target has a gap of one week was shifted by one week
\* and two months, and the result by minus one week and minus two months
C15_Witness ==
    /\ ShiftedBack
    /\ error = "none"
    /\ call.earlier[1].shift = [weeks |-> 1, months |-> 2]
    /\ call.earlier[1].calendar.targets[1].gap = Freq(1, "W")
    /\ Units(call.calendar.targets[1].gap) = [days |-> 0, weeks |-> 2, months |-> 2]
    /\ Units(call.calendar.precursors[1].gap) =
           [days |-> 0, weeks |-> 0 - 1, months |-> 0 - 2]
    /\ Units(returned.targets[1].gap) = [days |-> 0, weeks |-> 1, months |-> 0]

\* the anchor years that get_intervals() realizes for a calendar
AnchorYears(calendar) == get_intervals_of(calendar).returned.index

\* the calendars that the call returned
ReturnedCalendars ==
    IF call.op = "calendar_shifter" THEN {returned}
    ELSE {returned[k] : k \in 1..Len(returned)}

\* C16: for a calendar mapped with map_years, the calendar returned by
\* calendar_shifter and every calendar returned by staggered_calendar realize
\* in get_intervals() exactly the anchor years of the input calendar
C16_ShiftKeepsAnchorYears ==
    (/\ call.op \in {"calendar_shifter", "staggered_calendar"}
     /\ error = "none"
     /\ call.calendar._mapping = "years") =>
        \A shifted \in ReturnedCalendars :
            AnchorYears(shifted) = AnchorYears(call.calendar)

(***************************************************************************)
(* Properties of the anchor.                                               *)
(***************************************************************************)
\* the one- and two-digit spellings of a number
Spellings(n) == {str(n)} \cup (IF n < 10 THEN {<<"0">> \o str(n)} ELSE {})

\* the last day of a month, February capped at 28
LastDay(m) == IF m = 2 THEN 28 ELSE IF m \in {4, 6, 9, 11} THEN 30 ELSE 31

\* the strings of the grammars 'M-D', 'M', 'Wn-D' and 'Wn'
MonthDayAnchors ==
    UNION { { mm \o <<"-">> \o dd : mm \in Spellings(m), dd \in Spellings(d) } :
                m \in 1..12, d \in 1..28 }
    \cup UNION { { mm \o <<"-">> \o str(d) : mm \in Spellings(m) } :
                     m \in 1..12 \ {2}, d \in 29..30 }
    \cup UNION { { mm \o <<"-", "3", "1">> : mm \in Spellings(m) } :
                     m \in {1, 3, 5, 7, 8, 10, 12} }
MonthAnchors == UNION { Spellings(m) : m \in 1..12 }
WeekAnchors == UNION { { <<"W">> \o ww : ww \in Spellings(w) } : w \in 1..52 }
WeekDayAnchors == { w \o <<"-">> \o str(d) : w \in WeekAnchors, d \in 1..7 }

\* the English month names
EnglishMonths ==
    <<<<"j", "a", "n", "u", "a", "r", "y">>,
      <<"f", "e", "b", "r", "u", "a", "r", "y">>,
      <<"m", "a", "r", "c", "h">>,
      <<"a", "p", "r", "i", "l">>,
      <<"m", "a", "y">>,
      <<"j", "u", "n", "e">>,
      <<"j", "u", "l", "y">>,
      <<"a", "u", "g", "u", "s", "t">>,
      <<"s", "e", "p", "t", "e", "m", "b", "e", "r">>,
      <<"o", "c", "t", "o", "b", "e", "r">>,
      <<"n", "o", "v", "e", "m", "b", "e", "r">>,
      <<"d", "e", "c", "e", "m", "b", "e", "r">>>>

\* the month whose full name or three-letter abbreviation the string is, in
\* any letter case; 0 when it is neither
NamedMonth(chars) ==
    IF \E m \in 1..12 : lower(chars) \in {EnglishMonths[m],
                                            SubSeq(EnglishMonths[m], 1, 3)}
    THEN CHOOSE m \in 1..12 : lower(chars) \in {EnglishMonths[m],
                                                 SubSeq(EnglishMonths[m], 1, 3)}
    ELSE 0

\* the canonical anchor and format that the grammar gives a string, with
\* format "None" for a string of no grammar
Canonical(chars) ==
    IF chars \in MonthDayAnchors THEN [anchor |-> chars, fmt |-> "%m-%d"]
    ELSE IF chars \in MonthAnchors THEN [anchor |-> chars, fmt |-> "%m"]
    ELSE IF chars \in WeekDayAnchors THEN [anchor |-> chars, fmt |-> "W%W-%w"]
    ELSE IF chars \in WeekAnchors
    THEN [anchor |-> chars \o <<"-", "1">>, fmt |-> "W%W-%w"]
    ELSE IF NamedMonth(chars) # 0
    THEN [anchor |-> str(NamedMonth(chars)), fmt |-> "%m"]
    ELSE [anchor |-> <<>>, fmt |-> "None"]

\* the input is a string of one of the grammars
Acceptable(value) == value.type = "str" /\ Canonical(value.chars).fmt # "None"

\* C17: Calendar(anchor=s) accepts s exactly when s is a string of the
\* grammars 'M-D', 'M', 'Wn-D', 'Wn' or an English month name or abbreviation
\* in any letter case; the anchor kept is s, 'Wn-1' for 'Wn' and the month
\* number for a name, with formats '%m-%d', '%m', 'W%W-%w', 'W%W-%w', '%m';
\* every other input raises an error and no calendar is created (the anchor
\* setter, which parses in the same way, then leaves the anchor as it was)
C17_AnchorGrammar ==
    call.op \in {"Calendar", "anchor"} =>
        IF Acceptable(call.value)
        THEN /\ error = "none"
             /\ _anchor = Canonical(call.value.chars).anchor
             /\ _anchor_fmt = Canonical(call.value.chars).fmt
        ELSE /\ error # "none"
             /\ _anchor = IF call.op = "Calendar" THEN <<>> ELSE call._anchor
             /\ _anchor_fmt =
                    IF call.op = "Calendar" THEN "None" ELSE call._anchor_fmt

\* the calendar of Calendar(anchor="W9"), with the anchor "W9-1", was given
\* the anchor "December" and holds "12"
C17_Witness ==
    /\ call.op = "anchor"
    /\ call._anchor = <<"W", "9", "-", "1">>
    /\ call._anchor_fmt = "W%W-%w"
    /\ call.value.chars =
           <<"D", "e", "c", "e", "m", "b", "e", "r">>
    /\ error = "none"
    /\ _anchor = <<"1", "2">>
    /\ _anchor_fmt = "%m"

\* C18: the canonical anchor c of an accepted anchor is itself accepted and
\* parses to the same anchor c and the same format
C18_ParseAnchorIdempotent ==
    (/\ call.op = "anchor"
     /\ call.value = [type |-> "str", chars |-> call._anchor]) =>
        /\ error = "none"
        /\ _anchor = call._anchor
        /\ _anchor_fmt = call._anchor_fmt

\* the anchor "W9-1" that "W9" was parsed to has been parsed again
C18_Witness ==
    /\ call.op = "anchor"
    /\ call.value = [type |-> "str", chars |-> <<"W", "9", "-", "1">>]
    /\ call._anchor = <<"W", "9", "-", "1">>
    /\ call._anchor_fmt = "W%W-%w"
    /\ error = "none"
    /\ _anchor = <<"W", "9", "-", "1">>

(***************************************************************************)
(* Properties of the errors of get_intervals.                              *)
(***************************************************************************)
\* every interval of anchor year y lies within the span of the data the
\* calendar is mapped to
CoveredByData(y) ==
    \A c \in 1..Len(_map_year(Self, y)) :
        /\ _map_year(Self, y)[c].left >= _first_timestamp
        /\ _map_year(Self, y)[c].right <= _last_timestamp

\* the anchor years whose intervals can touch the span of the data
YearsNearData ==
    (Fields(_first_timestamp).year - MaxIntervals - 1)
        ..(Fields(_last_timestamp).year + MaxIntervals + 1)

\* C19: when the span of the data given to map_to_data contains the complete
\* interval set of no anchor year, get_intervals() fails with "The input data
\* could not cover the target advent calendar." and returns no table
C19_ShortDataRefused ==
    (/\ call.op = "get_intervals"
     /\ _mapping = "data"
     /\ Len(targets) + Len(precursors) > 0
     /\ \A y \in YearsNearData : ~CoveredByData(y)) =>
        error = "ValueError"

\* C20: get_intervals() raises an error and returns no table when the calendar
\* has no mapping, and also when it is mapped but holds no intervals
C20_UnmappedOrEmptyRefused ==
    (/\ call.op = "get_intervals"
     /\ \/ _mapping = "None"
        \/ Len(targets) + Len(precursors) = 0) =>
        error # "none"

(***************************************************************************)
(* Properties of configuration errors.                                     *)
(***************************************************************************)
\* the arguments that add_intervals refuses
Misused(a) ==
    \/ a.n.type # "int"
    \/ a.n.value <= 0
    \/ a.role \notin {"target", "precursor"}

\* C21: add_intervals with an n that is not an integer or is <= 0, or with a
\* role other than target / precursor, raises an error and appends no
\* interval; map_years(start, end) with start > end raises an error and keeps
\* the mapping kind and range; both leave the calendar unchanged
C21_MisuseLeavesCalendarUnchanged ==
    [][/\ \A a \in AddIntervalsArgs :
              (Misused(a) /\ add_intervals(a.role, a.length, a.gap, a.n)) =>
                  (error' = "ValueError" /\ UNCHANGED calendar_vars)
       /\ \A start \in Years, end \in Years :
              (start > end /\ map_years(start, end)) =>
                  (error' = "ValueError" /\ UNCHANGED calendar_vars)]_vars

\* map_years with start > end was refused on a calendar that holds intervals
\* and is mapped to data
C21_Witness ==
    /\ call.op = "map_years"
    /\ error = "ValueError"
    /\ _mapping = "data"
    /\ Len(targets) + Len(precursors) = MaxIntervals

(***************************************************************************)
(* Properties of the arguments of resample.                                *)
(***************************************************************************)
\* C22: after every call of resample, successful or failed, the input data
\* (values, time axis, name, attributes) are as before the call, and so are
\* the anchor, the intervals and the mapping kind and range of the calendar
C22_ResampleKeepsArguments ==
    [][call'.op = "resample" =>
          /\ call'.input_data_after = call'.input_data
          /\ UNCHANGED <<_anchor, _anchor_fmt, _allow_overlap, targets,
                         precursors, _mapping, _first_timestamp,
                         _last_timestamp>>
          /\ _mapping = "years" => UNCHANGED <<_first_year, _last_year>>]_vars

(***************************************************************************)
(* Properties of the shorthand builders.                                   *)
(***************************************************************************)
\* the days of a year for the daily and weekly builders, the months for the
\* monthly builder, and the days or months of a length
CycleOf(unit) == IF unit = "M" THEN 12 ELSE 365
SizeOf(length) == IF length.unit = "W" THEN 7 * length.n ELSE length.n

\* the number of precursors that the claim gives a builder
ExpectedPrecursors ==
    IF call.n_precursors > 0 THEN call.n_precursors
    ELSE IF CycleOf(call.unit) \div SizeOf(call.length) > call.n_targets
    THEN CycleOf(call.unit) \div SizeOf(call.length) - call.n_targets
    ELSE 0

\* C23: a builder returns a calendar with exactly n_targets targets and, for
\* n_precursors > 0, n_precursors precursors, for n_precursors = 0
\* max(0, floor(P / length) - n_targets) precursors, P being 365 days (daily,
\* weekly) or 12 months (monthly); every interval has the given length and a
\* zero gap; a length of another unit raises an error
C23_ShorthandIntervals ==
    (call.op = "shorthand" /\ call.n_targets >= 1 /\ call.n_precursors >= 0) =>
        IF call.length.unit # call.unit
        THEN error # "none" /\ _anchor_fmt = "None"
        ELSE /\ error = "none"
             /\ Len(targets) = call.n_targets
             /\ Len(precursors) = ExpectedPrecursors
             /\ \A i \in 1..Len(targets) :
                    /\ targets[i].role = "target"
                    /\ targets[i].length = call.length
                    /\ Units(targets[i].gap) = [days |-> 0, weeks |-> 0, months |-> 0]
             /\ \A i \in 1..Len(precursors) :
                    /\ precursors[i].role = "precursor"
                    /\ precursors[i].length = call.length
                    /\ Units(precursors[i].gap) =
                           [days |-> 0, weeks |-> 0, months |-> 0]

\* weekly_calendar with length 10W, two targets and n_precursors = 0 returned
\* a calendar with three precursors
C23_Witness ==
    /\ call.op = "shorthand"
    /\ call.unit = "W"
    /\ call.length = Freq(10, "W")
    /\ call.n_targets = 2
    /\ call.n_precursors = 0
    /\ error = "none"
    /\ Len(targets) = 2
    /\ Len(precursors) = 3

(***************************************************************************)
(* Properties of map_to_data(input_data, safe).                            *)
(***************************************************************************)
\* the latest and the earliest interval of anchor year y
LastInterval(y) ==
    CHOOSE i \in { _map_year(Self, y)[c] : c \in 1..Len(_map_year(Self, y)) } :
        \A c \in 1..Len(_map_year(Self, y)) : _map_year(Self, y)[c].left <= i.left
EarliestInterval(y) ==
    CHOOSE i \in { _map_year(Self, y)[c] : c \in 1..Len(_map_year(Self, y)) } :
        \A c \in 1..Len(_map_year(Self, y)) : _map_year(Self, y)[c].left >= i.left

\* one sampling period, when the time axis has the same step throughout
Period(data) ==
    IF \A k \in 1..(Len(time_values(data)) - 1) :
           time_values(data)[k + 1] - time_values(data)[k] = data.freq
    THEN data.freq
    ELSE 0

\* the coverage rule of each mode at the two edges of the data
Qualifies(y, data, safe) ==
    IF safe
    THEN /\ LastInterval(y).right <= _last_timestamp + Period(data)
         /\ EarliestInterval(y).left >= _first_timestamp - Period(data)
    ELSE /\ _last_timestamp >= LastInterval(y).left
         /\ _first_timestamp < EarliestInterval(y).right

\* the outcome that a test expects of the data of one of its cases
Expected(matrix, data_of(_, _)) ==
    \A case \in matrix :
        (/\ Len(targets) = 1
         /\ call.input_data = data_of(case.n_dropped_indices, case.inferable)
         /\ call.safe = case.safe_mode) =>
            IF case.valid
            THEN error' = "none" /\ returned'.index = <<2020>>
            ELSE error' = "ValueError"

EndOfTargets(y) ==
    IF targets = <<>> THEN _get_anchor(Self, y)
    ELSE iloc_last(_concatenate_periods(Self, y, targets, TRUE)).right
StartOfPrecursors(y) ==
    IF precursors = <<>> THEN _get_anchor(Self, y)
    ELSE IF Len(precursors) > MaxIntervals
    THEN \* a long run of equal blocks of days
         _get_anchor(Self, y)
             - Len(precursors) * (precursors[1].length.n + precursors[1].gap.n)
    ELSE iloc_last(_map_year(Self, y)).left

\* the calendars of the examples, at anchor 12-31
Days(role, n) == Interval(role, Freq(n, "d"), Freq(0, "d"))
ExampleOf(tgts, precs) ==
    /\ _anchor_fmt = "%m-%d"
    /\ ~_allow_overlap
    /\ targets = tgts
    /\ precursors = precs

\* C25: _get_skip_nyears() returns 0 when allow_overlap is True, and otherwise
\* the smallest k >= 0 for which the end of the last target of anchor year
\* 1999 - k is not later than the start of the earliest precursor of anchor year
\* 2000; a 30-day target with a 365-day precursor at anchor 12-31 gives 1 and
\* realizes the years 2020-2022 as [2022, 2020], and one 5-day target gives 0
\* with 72 precursors of 5 days and 1 with 73
C25_SkipIsSmallestSeparation ==
    /\ call.op = "_get_skip_nyears" =>
           /\ _allow_overlap => returned = 0
           /\ ~_allow_overlap =>
                  /\ returned \in Nat
                  /\ EndOfTargets(proto_year - 1 - returned)
                         <= StartOfPrecursors(proto_year)
                  /\ \A k \in 0..(returned - 1) :
                         EndOfTargets(proto_year - 1 - k)
                             > StartOfPrecursors(proto_year)
           /\ ExampleOf(<<Days("target", 30)>>, <<Days("precursor", 365)>>) =>
                  returned = 1
           /\ ExampleOf(<<Days("target", 5)>>, Repeat(Days("precursor", 5), 72)) =>
                  returned = 0
           /\ ExampleOf(<<Days("target", 5)>>, Repeat(Days("precursor", 5), 73)) =>
                  returned = 1
    /\ (/\ call.op = "get_intervals"
        /\ _mapping = "years"
        /\ ExampleOf(<<Days("target", 30)>>, <<Days("precursor", 365)>>)) =>
           returned.index = <<2022, 2020>>

\* reached: one target and 73 precursors of five days, which need one year
\* skipped
C25_Witness ==
    /\ call.op = "_get_skip_nyears"
    /\ ExampleOf(<<Days("target", 5)>>, Repeat(Days("precursor", 5), 73))
    /\ returned = 1

(***************************************************************************)
(* Properties of the order of the checks of resample.                      *)
(***************************************************************************)
\* the preconditions of the resample call of the state: a mapped calendar, a
\* recognized reduction, data with a datetime time axis, a sampling period that
\* no interval of the calendar is shorter than, and no reserved name
Mapped == _mapping # "None"
KnownHow == call.how \in {VALID_METHODS[i] : i \in 1..Len(VALID_METHODS)}
HasTimeAxis ==
    /\ call.input_data.type \in {"Series", "DataFrame", "DataArray", "Dataset"}
    /\ call.input_data.datetime
FrequencyFits ==
    \A i \in 1..Len(targets \o precursors) :
        call.input_data.freq <= length_timedelta((targets \o precursors)[i])
NoReservedName == ~DefinesReservedName(call.input_data)

\* C26: resample checks in this order that the calendar is mapped, that `how`
\* is a recognized reduction, that the data have a datetime time axis, that the
\* data frequency fits the calendar and that the data hold no reserved name;
\* the first check that fails decides the error, and no result is returned
C26_PreconditionsInOrder ==
    call.op = "resample" =>
        /\ ~Mapped =>
               error = "ValueError: Generate a calendar map before calling resample"
        /\ (Mapped /\ ~KnownHow) =>
               error = "ValueError: not a valid resampling method"
        /\ (Mapped /\ KnownHow /\ ~HasTimeAxis) => error = "ValueError"
        /\ (/\ Mapped /\ KnownHow /\ HasTimeAxis
            /\ Len(targets \o precursors) > 0 /\ ~FrequencyFits) =>
               error = "ValueError: data of a lower time resolution than the calendar"
        /\ (/\ Mapped /\ KnownHow /\ HasTimeAxis
            /\ Len(targets \o precursors) > 0 /\ FrequencyFits
            /\ ~NoReservedName) =>
               error = "ValueError: reserved names"
        /\ error # "none" => returned = Null

(***************************************************************************)
(* Properties of get_intervals as a derived table.                         *)
(***************************************************************************)
\* the calendar of the next state as its intervals and its last mapping call
\* define it: a calendar mapped to data holds no year range, a calendar mapped
\* to years no timestamps
AsConfigured ==
    [_anchor |-> _anchor', _anchor_fmt |-> _anchor_fmt',
     _allow_overlap |-> _allow_overlap',
     targets |-> targets', precursors |-> precursors',
     _mapping |-> _mapping',
     _first_year |-> IF _mapping' = "years" THEN _first_year' ELSE Null,
     _last_year |-> IF _mapping' = "years" THEN _last_year' ELSE Null,
     _first_timestamp |-> IF _mapping' = "data" THEN _first_timestamp' ELSE Null,
     _last_timestamp |-> IF _mapping' = "data" THEN _last_timestamp' ELSE Null]

\* C27: get_intervals() is computed from the intervals held (those added after
\* the mapping call included) and from the last mapping call alone, whatever
\* earlier calls left in the calendar; a table has one column per interval;
\* two get_intervals() calls in a row give the same outcome; map_years and
\* map_to_data return the calendar itself
C27_IntervalsDerivedOnDemand ==
    [][/\ call'.op = "get_intervals" =>
              /\ error' = get_intervals_of(AsConfigured).error
              /\ error' = "none" =>
                     /\ returned' = get_intervals_of(AsConfigured).returned
                     /\ Len(returned'.columns) = Len(targets') + Len(precursors')
              /\ call.op = "get_intervals" =>
                     /\ error' = error
                     /\ error = "none" => returned' = returned
       /\ (call'.op \in {"map_years", "map_to_data"} /\ error' = "none") =>
              returned' = "self"]_vars

\* reached: a calendar mapped to data whose table was asked for, then given
\* intervals that the data no longer cover, and asked again
C27_Witness ==
    /\ call.op = "get_intervals"
    /\ _mapping = "data"
    /\ error = "ValueError"
    /\ ToString(_first_year) # ToString(Null)

(***************************************************************************)
(* Properties of the rows of a resampled table.                            *)
(***************************************************************************)
\* the table of get_intervals() of the calendar of the state
IntervalsTable == get_intervals_of(Self).returned

\* C28: the table that resample returns for tabular data holds the anchor
\* years in its anchor_year column and has exactly one row for every
\* (anchor_year, i_interval) of the table of get_intervals(), with that pair's
\* interval in its interval column, ordered by anchor_year and then by
\* i_interval, both ascending
C28_OneRowPerIntervalInOrder ==
    (Resampled /\ is_pandas(call.input_data)) =>
        /\ returned.dtypes["anchor_year"] = "int64"
        /\ n_rows(returned)
               = Len(IntervalsTable.index) * Len(IntervalsTable.columns)
        /\ \A r \in 1..Len(IntervalsTable.index),
              c \in 1..Len(IntervalsTable.columns) :
               \E k \in 1..n_rows(returned) :
                   /\ returned.data["anchor_year"][k] = IntervalsTable.index[r]
                   /\ returned.data["i_interval"][k] = IntervalsTable.columns[c]
                   /\ returned.data["interval"][k] = IntervalsTable.values[r][c]
        /\ \A k \in 1..(n_rows(returned) - 1) :
               \/ returned.data["anchor_year"][k]
                      < returned.data["anchor_year"][k + 1]
               \/ /\ returned.data["anchor_year"][k]
                         = returned.data["anchor_year"][k + 1]
                  /\ returned.data["i_interval"][k]
                         < returned.data["i_interval"][k + 1]

(***************************************************************************)
(* Properties of the arguments of the shifter functions.                   *)
(***************************************************************************)
\* C29: calendar_shifter and staggered_calendar leave the calendar they are
\* given as it was (anchor, mapping, lengths and gaps of the intervals), and a
\* shift given as a dictionary holds after the call the values it held before
C29_ShifterKeepsArguments ==
    [][call'.op \in {"calendar_shifter", "staggered_calendar"} =>
          /\ UNCHANGED <<_anchor, _anchor_fmt, _allow_overlap, targets, precursors,
                         _mapping, _first_year, _last_year>>
          /\ call'.shift_after = call'.shift]_vars


(***************************************************************************)
(* Properties of the anchor of a year.                                     *)
(***************************************************************************)
\* the weekday of a day, from 1 (Monday) to 7 (Sunday)
Weekday(ts) == ((ts + 3) % 7) + 1

\* C30: on a calendar whose anchor was accepted, _get_anchor(year) does not
\* fail in any year: a month-day anchor gives that day of the year, a month
\* anchor the first day of the month, and a week anchor a day of the weekday
\* it names, from 1 (Monday) to 7 (Sunday)
C30_AcceptedAnchorsResolve ==
    call.op = "_get_anchor" =>
        /\ error = "none"
        /\ _anchor_fmt = "%m-%d" =>
               /\ Fields(returned).year = call.year
               /\ Fields(returned).month
                      = ParseInt(SubSeq(_anchor, 1, Find(_anchor, "-") - 1))
               /\ Fields(returned).day
                      = ParseInt(SubSeq(_anchor, Find(_anchor, "-") + 1,
                                       Len(_anchor)))
        /\ _anchor_fmt = "%m" =>
               Fields(returned) =
                   [year |-> call.year, month |-> ParseInt(_anchor), day |-> 1]
        /\ _anchor_fmt = "W%W-%w" =>
               Weekday(returned) = DigitValue(_anchor[Len(_anchor)])

====
